---- MODULE Spec2Model ----
(***************************************************************************)
(* AEraLogin: score growth, ledger synchronisation (blockchain_sync.py,    *)
(* web3_service.py, resonance_calculator.py, server.py) and the gated      *)
(* Telegram group bot (telegram_group_bot.py).                             *)
(*                                                                         *)
(* Scores are kept in hundredths of a point (50.00 is 5000); the ledger    *)
(* and the resonance total are whole points.  The server runs on one       *)
(* asyncio event loop: a coroutine keeps the loop until it reaches an      *)
(* await that really suspends, and the web3 calls are blocking calls.      *)
(***************************************************************************)
EXTENDS Integers, Sequences, FiniteSets, TLC

\* ------------------------------------------------------------ bounds
MaxEvents == 2
TickSeconds == 61
MaxInteractions == 2
MaxTxs == 4
MaxBotEvents == 5
MaxSweepEvents == 3
MaxAttempts == 2
MaxTokenEvents == 3
ByteMax == 256 - 1
LongTickSeconds == 1801

\* ------------------------------------------------- program constants
MAX_RETRIES == 3
RETRY_DELAY_SECONDS == 300
RECEIPT_TIMEOUT == 120
VIS_RECEIPT_TIMEOUT == 60
NONCE_CACHE_SECONDS == 30
LOGIN_SESSION_SECONDS == 60
INITIAL_SCORE == 50
MAX_SCORE == 100
DEFAULT_MIN_SCORE == 50
DEFAULT_SESSION_TIMEOUT == 1800
PENDING_TOKEN_SECONDS == 120
INVITE_EXPIRE_SECONDS == 300
SCORE_REFRESH_SECONDS == 60

Addresses == {"a1", "a2"}
Tasks == {"worker", "handler", "dashboard"}
NoNonce == -1
NoOwner == "none"
NoLogin == -1

Users == {"u1", "u2"}
Links == {"l1"}
NoLink == "none"
NoScore == -1
LiveScores == {NoScore, 40, 60}
TokenScores == {40, 60}
PollMinScore == 50
NumOptions == 2
NoVote == -1
MinScores == {30, 70}
CLEANUP_SECONDS == 60
ShortTicks == {20, 40}

VARIABLES
    now,                \* time.time(), seconds
    events,             \* number of external events taken so far
    registered,         \* addresses with a row in users
    score,              \* users.score, hundredths
    blockchain_score,   \* users.blockchain_score (local last synced value)
    last_login,         \* users.last_login
    pending_bonus,      \* users.pending_bonus
    followers,          \* rows of followers: <<owner_wallet, follower_address>>
    confirmed,          \* the rows with follow_confirmed = 1
    scanned,            \* initial_sync_scan has run
    sync_queue,         \* blockchain_sync.sync_queue
    jobs,               \* per item put by add_to_sync_queue: what happened to it
    pc,                 \* where each coroutine stands
    frame,              \* the locals of each coroutine
    _nonce_lock,        \* Web3Service._nonce_lock: "free" or its holder
    _last_nonce,        \* Web3Service._last_nonce
    _last_nonce_time,   \* Web3Service._last_nonce_time
    tx_count,           \* mined transactions of the backend signer
    txs,                \* every transaction the node accepted, in order
    ledger,             \* ResonanceScore.getResonance on chain
    obs,                \* per address: the sync decisions taken, in order
    sessions,           \* SessionManager.sessions of the one group, per telegram id
    pending_tokens,     \* SessionManager.pending_tokens, per invite link
    votes,              \* ActivePoll.votes of the one poll: option index per telegram id
    stored,             \* per invite link: how many tokens were stored under it
    calls,              \* per telegram id: the _mute_user/_unmute_user calls made
    flips,              \* per telegram id: changes of can_write by update_score
    joins,              \* what each handle_new_member saw and did, in order
    ballots,            \* what each handle_poll_vote saw and did, in order
    fetched,            \* per telegram id: the score fetches handle_message started
    closed,             \* ActivePoll.closed of the one poll
    results,            \* what get_results returned to the last cmd_closepoll
    min_score,          \* GroupConfig.min_score of the one group
    removed,            \* per telegram id and invite link: what deleted its entry last
    token,              \* a capability token as it is presented to verify_token
    issued,             \* the token create_token returned, and what was changed since
    verdict,            \* what the last verify_token returned
    pure_call,          \* a call of a function without side effects: its arguments
    pure_ret            \* <<the value the call returned>>, <<>> before it returns

dbVars == <<registered, score, blockchain_score, last_login, pending_bonus, followers,
           confirmed>>
queueVars == <<sync_queue, jobs>>
web3Vars == <<_nonce_lock, _last_nonce, _last_nonce_time>>
chainVars == <<tx_count, txs, ledger>>
serverVars == <<now, events, dbVars, scanned, queueVars, pc, frame, web3Vars, chainVars, obs>>

serverState == <<dbVars, scanned, queueVars, pc, frame, web3Vars, chainVars, obs>>
botVars == <<sessions, pending_tokens, votes, stored, calls, flips, joins, ballots,
            fetched, closed, results, min_score, removed>>

tokenVars == <<token, issued, verdict>>

pureVars == <<pure_call, pure_ret>>

\* the variables of the group bot, of its tokens and of the calls of pure
\* functions, which the server leaves alone
outside == <<botVars, tokenVars, pureVars>>

vars == <<serverVars, outside>>

\* ------------------------------------------------------------ helpers
Max(a, b) == IF a >= b THEN a ELSE b
Abs(a) == IF a >= 0 THEN a ELSE -a

NoFrame == [op |-> "none", address |-> "a1", score |-> 0, job |-> 0, retries |-> 0,
            nonce |-> NoNonce, tx |-> 0, ok |-> FALSE, wake_at |-> 0, owner |-> NoOwner]

NoFrameOf(t) == [frame EXCEPT ![t] = NoFrame]

\* A coroutine that has yielded the event loop: blocked in sync_queue.get(),
\* in asyncio.sleep() or in the HTTP request to Blockscout; an idle handler
\* slot has no coroutine at all.
Suspended(p) == p \in {"idle", "sleep", "blockscout"}
LoopFree == \A t \in Tasks : Suspended(pc[t])

\* ------------------------------------------- Python float (binary64)
\* users.score is a REAL with two decimals and the scoring code works on
\* Python floats.  A float that lies near a two-decimal number is the record
\* [h, e]: the number h / 100 + e * eps, with eps = 2^-47 / 25, so that e
\* counts twenty-fifths of the spacing of the floats between 32 and 64.  The
\* floats are 25 eps apart from 32 to 64, 50 eps from 64 to 128, 100 eps from
\* 128 to 256 and 200 eps from 256 to 512, and h / 100 is h * 2^45 eps, with
\* 2^45 = 32 modulo 25 * 2^k for k <= 5.
FloatZero == [h |-> 0, e |-> 0]

\* x >= bound / 100
GE(x, bound) == x.h > bound \/ (x.h = bound /\ x.e >= 0)

Spacing(h, e) ==
    LET x == [h |-> h, e |-> e]
    IN IF GE(x, 25600) THEN 200
       ELSE IF GE(x, 12800) THEN 100
       ELSE IF GE(x, 6400) THEN 50
       ELSE 25

\* The float nearest to h / 100 + (num / k) * eps, ties to the even mantissa;
\* with up, the number is a little more than that (by less than eps / 25), as
\* it is when the float of 0.2, 0.1 or 0.01 was added.
RoundNearest(h, num, k, up) ==
    LET q == num \div k
        r == num % k
        g == Spacing(h, num)
        B == (32 * h + q) % (2 * g)
        m == B % g
        lo == q - m
        twice == 2 * (k * m + r)
    IN [h |-> h,
        e |-> IF twice < k * g THEN lo
              ELSE IF twice > k * g THEN lo + g
              ELSE IF up THEN lo + g
              ELSE IF (B \div g) % 2 = 0 THEN lo ELSE lo + g]

\* float(h / 100) as it is read from the database
FloatOf(h) == IF h = 0 THEN FloatZero ELSE RoundNearest(h, 0, 1, FALSE)

\* x + y
FloatAdd(x, y, up) ==
    IF x = FloatZero THEN y
    ELSE IF y = FloatZero THEN x
    ELSE RoundNearest(x.h + y.h, x.e + y.e, 1, up)

\* x / k, for k that divides x.h
FloatDiv(x, k) == RoundNearest(x.h \div k, x.e, k, FALSE)

\* int(x), x >= 0
FloatInt(x) ==
    IF x.h % 100 = 0 /\ x.e < 0 THEN x.h \div 100 - 1 ELSE x.h \div 100

\* round(x, 2), in hundredths
Round2(x) == x.h

\* ------------------------------------------------ server.py: scoring
\* TIERED_SCORE_RATES, in hundredths of a point per interaction.
TIERED_SCORE_RATES(tier) ==
    CASE tier = 50 -> 100
      [] tier = 60 -> 50
      [] tier = 70 -> 20
      [] tier = 80 -> 10
      [] tier = 90 -> 1

\* 1.0 and 0.5 are floats; the floats of 0.2, 0.1 and 0.01 are a little more
\* than these numbers
Inexact(rate) == rate \in {20, 10, 1}

\* a score on a band boundary is left in the lower band
calculate_tiered_points_below(current_score, interactions) ==
    LET Above(bound) == current_score.h > bound \/ (current_score.h = bound /\ current_score.e > 0)
        rate == IF Above(90 * 100) THEN TIERED_SCORE_RATES(90)
                ELSE IF Above(80 * 100) THEN TIERED_SCORE_RATES(80)
                ELSE IF Above(70 * 100) THEN TIERED_SCORE_RATES(70)
                ELSE IF Above(60 * 100) THEN TIERED_SCORE_RATES(60)
                ELSE TIERED_SCORE_RATES(50)
    IN rate * interactions
\* calculate_tiered_points(current_score, interactions), current_score a float
calculate_tiered_points(current_score, interactions) ==
    LET rate == IF GE(current_score, 90 * 100) THEN TIERED_SCORE_RATES(90)
                ELSE IF GE(current_score, 80 * 100) THEN TIERED_SCORE_RATES(80)
                ELSE IF GE(current_score, 70 * 100) THEN TIERED_SCORE_RATES(70)
                ELSE IF GE(current_score, 60 * 100) THEN TIERED_SCORE_RATES(60)
                ELSE TIERED_SCORE_RATES(50)
    IN rate * interactions

\* the loop of calculate_new_score: new_score after the rounds that are left
RECURSIVE NewScoreLoop(_, _)
NewScoreLoop(new_score, interactions) ==
    IF interactions <= 0 THEN new_score
    ELSE LET points == calculate_tiered_points(new_score, 1)
             sum == FloatAdd(new_score, [h |-> points, e |-> 0], Inexact(points))
             capped == IF GE(sum, MAX_SCORE * 100) THEN FloatOf(MAX_SCORE * 100) ELSE sum
         IN IF GE(capped, MAX_SCORE * 100) THEN capped
            ELSE NewScoreLoop(capped, interactions - 1)

\* the points of the whole call are added at once, without the cap
calculate_new_score_bulk(current_score, interactions) ==
    current_score + calculate_tiered_points(FloatOf(current_score), interactions)
\* calculate_new_score(current_score, interactions): hundredths in and out
calculate_new_score(current_score, interactions) ==
    Round2(NewScoreLoop(FloatOf(current_score), interactions))

\* ------------------------------------- resonance_calculator.py
\* total_resonance_blockchain = int(own_score + avg_follower_score), with the
\* scores of the users table as they are in the database db.
FollowersOf(db_followers, address) == {f \in Addresses : <<address, f>> \in db_followers}

\* the rows of a set in the order of a table scan
RECURSIVE Rows(_)
Rows(S) ==
    IF S = {} THEN <<>>
    ELSE LET x == CHOOSE y \in S : TRUE IN <<x>> \o Rows(S \ {x})

\* SUM as SQLite's AVG accumulates it: a float, row after row
RECURSIVE FloatSum(_, _)
FloatSum(scores, i) ==
    IF i = 0 THEN FloatZero
    ELSE FloatAdd(FloatSum(scores, i - 1), FloatOf(scores[i]), FALSE)

RECURSIVE SumSeq(_, _)
SumSeq(scores, i) == IF i = 0 THEN 0 ELSE SumSeq(scores, i - 1) + scores[i]

\* total_resonance_blockchain = int(own_score + avg_follower_score) for the
\* own score and the followers' scores, in hundredths.  When the sum of the
\* followers' scores is no multiple of their number, the exact total is at
\* least 1 / (100 * count) away from every integer and the floats, which are
\* off by less than 2^-40, have the same integer part.
TotalResonance(own_score, scores) ==
    LET follower_count == Len(scores)
        sum == SumSeq(scores, follower_count)
    IN IF follower_count = 0 THEN FloatInt(FloatOf(own_score))
       ELSE IF sum % follower_count # 0
       THEN (own_score * follower_count + sum) \div (100 * follower_count)
       ELSE FloatInt(FloatAdd(FloatOf(own_score),
                              FloatDiv(FloatSum(scores, follower_count), follower_count),
                              FALSE))

calculate_resonance_score(db_registered, db_score, db_followers, address) ==
    LET own_score == IF address \in db_registered THEN db_score[address] ELSE 0
        rows == Rows(FollowersOf(db_followers, address))
    IN TotalResonance(own_score, [i \in 1..Len(rows) |-> db_score[rows[i]]])

\* --------------------------------------------- web3_service.py
\* Web3Service._get_next_nonce: the nonce it returns.
_get_next_nonce ==
    LET current_nonce == tx_count
    IN IF _last_nonce # NoNonce /\ (now - _last_nonce_time) < NONCE_CACHE_SECONDS
       THEN Max(current_nonce, _last_nonce + 1)
       ELSE current_nonce

Pending(n) == {i \in 1..Len(txs) : txs[i].status = "pending" /\ txs[i].nonce = n}

\* The node takes a raw transaction: an older pending one with the same nonce
\* is replaced by it.  It takes MaxTxs transactions in all and refuses the rest.
NodeAccept(tx) ==
    Append([i \in 1..Len(txs) |->
               IF i \in Pending(tx.nonce) THEN [txs[i] EXCEPT !.status = "replaced"]
               ELSE txs[i]], tx)

\* earlier ledger writes for the same address, as the node has them
Earlier(address) ==
    {i \in 1..Len(txs) : txs[i].op # "vis" /\ txs[i].address = address}

NewTx(t, n) ==
    [op |-> frame[t].op, address |-> frame[t].address, score |-> frame[t].score,
     job |-> frame[t].job, nonce |-> n, status |-> "pending", wait |-> "waiting",
     locked |-> (_nonce_lock = t),
     unconfirmed |-> frame[t].op # "vis" /\
                     \E i \in Earlier(frame[t].address) : txs[i].status = "pending",
     overlaps |-> frame[t].op # "vis" /\
                  \E i \in Earlier(frame[t].address) : txs[i].wait = "waiting"]

\* async with self._nonce_lock: entered
ubs_acquire(t) ==
    /\ pc[t] = "ubs_lock"
    /\ _nonce_lock = "free"
    /\ _nonce_lock' = t
    /\ pc' = [pc EXCEPT ![t] = "ubs_nonce"]
    /\ UNCHANGED <<now, events, dbVars, scanned, queueVars, frame, _last_nonce,
                   _last_nonce_time, chainVars, obs, outside>>

\* nonce = await self._get_next_nonce()
ubs_get_nonce(t) ==
    /\ pc[t] = "ubs_nonce"
    /\ frame' = [frame EXCEPT ![t].nonce = _get_next_nonce]
    /\ _last_nonce' = _get_next_nonce
    /\ _last_nonce_time' = now
    /\ pc' = [pc EXCEPT ![t] = "ubs_send"]
    /\ UNCHANGED <<now, events, dbVars, scanned, queueVars, _nonce_lock, chainVars, obs, outside>>

\* ubs_send without the wait for the receipt that follows it
ubs_send_no_wait(t) ==
    /\ pc[t] = "ubs_send"
    /\ _nonce_lock' = "free"
    /\ frame[t].nonce >= tx_count
    /\ Len(txs) < MaxTxs
    /\ txs' = NodeAccept(NewTx(t, frame[t].nonce))
    /\ frame' = [frame EXCEPT ![t].tx = Len(txs) + 1, ![t].ok = FALSE]
    /\ pc' = [pc EXCEPT ![t] = "ubs_ret"]
    /\ UNCHANGED <<now, events, dbVars, scanned, queueVars, _last_nonce,
                   _last_nonce_time, tx_count, ledger, obs, outside>>

\* build_transaction, sign_transaction, send_raw_transaction; the lock is
\* released on the way out of the async with block, also by an exception.
ubs_send(t) ==
    /\ pc[t] = "ubs_send"
    /\ _nonce_lock' = "free"
    /\ \/ /\ frame[t].nonce >= tx_count
          /\ Len(txs) < MaxTxs
          /\ txs' = NodeAccept(NewTx(t, frame[t].nonce))
          /\ frame' = [frame EXCEPT ![t].tx = Len(txs) + 1]
          /\ pc' = [pc EXCEPT ![t] = "ubs_wait"]
       \/ /\ frame' = [frame EXCEPT ![t].ok = FALSE]
          /\ pc' = [pc EXCEPT ![t] = "ubs_ret"]
          /\ UNCHANGED txs
    /\ UNCHANGED <<now, events, dbVars, scanned, queueVars, _last_nonce,
                   _last_nonce_time, tx_count, ledger, obs, outside>>

Mined(i) == txs[i].status \in {"success", "reverted"}

\* receipt = self.w3.eth.wait_for_transaction_receipt(tx_hash, timeout=120):
\* a blocking call; update_blockchain_score returns True for any receipt.
ubs_wait(t) ==
    /\ pc[t] = "ubs_wait"
    /\ IF Mined(frame[t].tx)
       THEN /\ frame' = [frame EXCEPT ![t].ok = TRUE]
            /\ txs' = [txs EXCEPT ![frame[t].tx].wait = "receipt"]
            /\ now' = now
       ELSE /\ frame' = [frame EXCEPT ![t].ok = FALSE]
            /\ txs' = [txs EXCEPT ![frame[t].tx].wait = "timeout"]
            /\ now' = now + RECEIPT_TIMEOUT
    /\ pc' = [pc EXCEPT ![t] = "ubs_ret"]
    /\ UNCHANGED <<events, dbVars, scanned, queueVars, web3Vars, tx_count, ledger, obs, outside>>

\* Web3Service.update_blockchain_score, one step of it
update_blockchain_score(t) ==
    \/ ubs_acquire(t)
    \/ ubs_get_nonce(t)
    \/ ubs_send(t)
    \/ ubs_wait(t)

\* The chain mines the signer's next transaction; adminAdjust may revert.
Mine ==
    \E i \in 1..Len(txs), st \in {"success", "reverted"} :
        /\ txs[i].status = "pending"
        /\ txs[i].nonce = tx_count
        /\ txs' = [txs EXCEPT ![i].status = st]
        /\ tx_count' = tx_count + 1
        /\ ledger' = IF st = "success" /\ txs[i].op # "vis"
                     THEN [ledger EXCEPT ![txs[i].address] = txs[i].score]
                     ELSE ledger
        /\ UNCHANGED <<now, events, dbVars, scanned, queueVars, pc, frame, web3Vars, obs, outside>>


\* Web3Service.set_profile_visibility: nonce read, send and wait, no lock taken
vis_nonce(t) ==
    /\ pc[t] = "vis_nonce"
    /\ frame' = [frame EXCEPT ![t].nonce = tx_count]
    /\ pc' = [pc EXCEPT ![t] = "vis_send"]
    /\ UNCHANGED <<now, events, dbVars, scanned, queueVars, web3Vars, chainVars, obs, outside>>

vis_send(t) ==
    /\ pc[t] = "vis_send"
    /\ \/ /\ frame[t].nonce >= tx_count
          /\ Len(txs) < MaxTxs
          /\ txs' = NodeAccept(NewTx(t, frame[t].nonce))
          /\ frame' = [frame EXCEPT ![t].tx = Len(txs) + 1]
          /\ pc' = [pc EXCEPT ![t] = "vis_wait"]
       \/ /\ frame' = NoFrameOf(t)
          /\ pc' = [pc EXCEPT ![t] = "idle"]
          /\ UNCHANGED txs
    /\ UNCHANGED <<now, events, dbVars, scanned, queueVars, web3Vars, tx_count, ledger,
                   obs, outside>>

vis_wait(t) ==
    /\ pc[t] = "vis_wait"
    /\ IF Mined(frame[t].tx)
       THEN /\ txs' = [txs EXCEPT ![frame[t].tx].wait = "receipt"]
            /\ now' = now
       ELSE /\ txs' = [txs EXCEPT ![frame[t].tx].wait = "timeout"]
            /\ now' = now + VIS_RECEIPT_TIMEOUT
    /\ frame' = NoFrameOf(t)
    /\ pc' = [pc EXCEPT ![t] = "idle"]
    /\ UNCHANGED <<events, dbVars, scanned, queueVars, web3Vars, tx_count, ledger, obs, outside>>

set_profile_visibility(t) ==
    \/ vis_nonce(t)
    \/ vis_send(t)
    \/ vis_wait(t)

\* ------------------------------------------- blockchain_sync.py
NewJob(address, target) ==
    [address |-> address, score |-> target, attempts |-> 0, state |-> "enqueued",
     failed_at |-> 0, requeued_at |-> 0]

\* add_to_sync_queue: the queue and the job table after the put
add_to_sync_queue(st, address, target) ==
    [queue |-> Append(st.queue, [address |-> address, score |-> target, retries |-> 0,
                                 job |-> Len(st.jobs) + 1]),
     jobs |-> Append(st.jobs, NewJob(address, target))]

\* process_sync_queue: item = await sync_queue.get(), then the call of
\* update_blockchain_score(address, score) begins
process_get ==
    /\ pc["worker"] = "idle"
    /\ LoopFree
    /\ sync_queue # <<>>
    /\ LET item == Head(sync_queue) IN
        /\ sync_queue' = Tail(sync_queue)
        /\ frame' = [frame EXCEPT !["worker"] =
                        [NoFrame EXCEPT !.op = "queue", !.address = item.address,
                                        !.score = item.score, !.job = item.job,
                                        !.retries = item.retries]]
        /\ jobs' = [jobs EXCEPT ![item.job].state = "inflight",
                                ![item.job].attempts = @ + 1]
    /\ pc' = [pc EXCEPT !["worker"] = "ubs_lock"]
    /\ UNCHANGED <<now, events, dbVars, scanned, web3Vars, chainVars, obs, outside>>

\* the retry test with <= for <
MayRetry_le(retries) == retries <= MAX_RETRIES

\* if retries < MAX_RETRIES
MayRetry(retries) == retries < MAX_RETRIES

\* the UPDATE is left out
UpdateBlockchainScore_none(address, value) == blockchain_score

\* UPDATE users SET blockchain_score = ? WHERE address = ?: the column
\* afterwards; without a row of the address nothing changes
UpdateBlockchainScore(address, value) ==
    IF address \in registered
    THEN [blockchain_score EXCEPT ![address] = value]
    ELSE blockchain_score

\* process_sync_queue after update_blockchain_score returned (success, result)
process_result ==
    /\ pc["worker"] = "ubs_ret"
    /\ LET f == frame["worker"] IN
        IF f.ok
        THEN /\ blockchain_score' = UpdateBlockchainScore(f.address, f.score)
             /\ jobs' = [jobs EXCEPT ![f.job].state = "committed"]
             /\ frame' = [frame EXCEPT !["worker"] = NoFrame]
             /\ pc' = [pc EXCEPT !["worker"] = "idle"]
        ELSE IF MayRetry(f.retries)
        THEN /\ frame' = [frame EXCEPT !["worker"].retries = f.retries + 1,
                                       !["worker"].wake_at = now + RETRY_DELAY_SECONDS]
             /\ jobs' = [jobs EXCEPT ![f.job].state = "retrying",
                                     ![f.job].failed_at = now]
             /\ pc' = [pc EXCEPT !["worker"] = "sleep"]
             /\ UNCHANGED blockchain_score
        ELSE /\ jobs' = [jobs EXCEPT ![f.job].state = "abandoned"]
             /\ frame' = [frame EXCEPT !["worker"] = NoFrame]
             /\ pc' = [pc EXCEPT !["worker"] = "idle"]
             /\ UNCHANGED blockchain_score
    /\ UNCHANGED <<now, events, registered, score, last_login, pending_bonus, followers,
                   confirmed, scanned, sync_queue, web3Vars, chainVars, obs, outside>>

\* the retry sleep ends and the item is not put back
process_requeue_drop ==
    /\ pc["worker"] = "sleep"
    /\ LoopFree
    /\ now' = Max(now, frame["worker"].wake_at)
    /\ jobs' = [jobs EXCEPT ![frame["worker"].job].state = "enqueued",
                            ![frame["worker"].job].requeued_at = now']
    /\ frame' = [frame EXCEPT !["worker"] = NoFrame]
    /\ pc' = [pc EXCEPT !["worker"] = "idle"]
    /\ UNCHANGED <<events, dbVars, scanned, sync_queue, web3Vars, chainVars, obs, outside>>

\* await asyncio.sleep(RETRY_DELAY_SECONDS) is over: await sync_queue.put(item)
process_requeue ==
    /\ pc["worker"] = "sleep"
    /\ LoopFree
    /\ LET f == frame["worker"] IN
        /\ now' = Max(now, f.wake_at)
        /\ sync_queue' = Append(sync_queue, [address |-> f.address, score |-> f.score,
                                              retries |-> f.retries, job |-> f.job])
        /\ jobs' = [jobs EXCEPT ![f.job].state = "enqueued",
                                ![f.job].requeued_at = Max(now, f.wake_at)]
    /\ frame' = [frame EXCEPT !["worker"] = NoFrame]
    /\ pc' = [pc EXCEPT !["worker"] = "idle"]
    /\ UNCHANGED <<events, dbVars, scanned, web3Vars, chainVars, obs, outside>>

\* the flag of the consumer's loop; the loop has ended once the task was stopped
_is_running == pc["worker"] # "stopped"

\* stop_sync_queue_processor: _is_running = False, the task is cancelled and
\* awaited.  The consumer can be cancelled only where it has yielded the
\* loop: in sync_queue.get(), where it holds no item, or in
\* asyncio.sleep(RETRY_DELAY_SECONDS), where the item it took is in its locals
\* only.  CancelledError ends the task; nothing puts the item back.  The
\* server is going down then and serves no further request.
stop_sync_queue_processor ==
    /\ LoopFree
    /\ pc' = [pc EXCEPT !["worker"] = "stopped"]
    /\ UNCHANGED <<now, events, dbVars, scanned, queueVars, frame, web3Vars, chainVars,
                   obs, outside>>

process_sync_queue ==
    \/ process_get
    \/ update_blockchain_score("worker")
    \/ process_result
    \/ process_requeue


\* ------------------------------------------------- sync decisions
Decision(path, total, sync, value, address) ==
    [path |-> path, total |-> total, ledger |-> ledger[address],
     cache |-> blockchain_score[address], sync |-> sync, value |-> value, at |-> now]

Observe(address, d) == [obs EXCEPT ![address] = Append(@, d)]

\* INSERT INTO followers ... ; UPDATE users SET pending_bonus = pending_bonus + 1
\* (server.py, verify): the followers rows and the bonus column afterwards
RegisterFollower(db_followers, db_bonus, db_registered, owner, address) ==
    IF owner = NoOwner \/ <<owner, address>> \in db_followers
    THEN [followers |-> db_followers, pending_bonus |-> db_bonus]
    ELSE [followers |-> db_followers \cup {<<owner, address>>},
          pending_bonus |-> IF owner \in db_registered
                            THEN [db_bonus EXCEPT ![owner] = @ + 1] ELSE db_bonus]

\* requests are served once the startup scan has run
HandlerFree == scanned /\ pc["handler"] = "idle" /\ LoopFree /\ events < MaxEvents

\* the call web3_service.update_blockchain_score(address, value) made by a handler
HandlerSubmits(op, address, value, owner) ==
    /\ frame' = [frame EXCEPT !["handler"] =
                    [NoFrame EXCEPT !.op = op, !.address = address, !.score = value,
                                    !.owner = owner]]
    /\ pc' = [pc EXCEPT !["handler"] = "ubs_lock"]

\* every call counts as a new login, whatever the time since last_login
verify_existing_always(address, owner) ==
    LET is_new_login_session ==
            TRUE
        new_score == IF is_new_login_session
                     THEN calculate_new_score(score[address], 1 + pending_bonus[address])
                     ELSE score[address]
        db_score == [score EXCEPT ![address] = new_score]
        db_bonus == IF is_new_login_session
                    THEN [pending_bonus EXCEPT ![address] = 0] ELSE pending_bonus
        total_resonance == calculate_resonance_score(registered, db_score, followers, address)
        reg == RegisterFollower(followers, db_bonus, registered, owner, address)
    IN
    /\ address \in registered
    /\ score' = db_score
    /\ last_login' = [last_login EXCEPT ![address] = now]
    /\ IF total_resonance % 2 # 0
       THEN /\ obs' = Observe(address, Decision("sync_after", total_resonance, FALSE, 0, address))
            /\ followers' = reg.followers
            /\ pending_bonus' = reg.pending_bonus
            /\ UNCHANGED <<pc, frame>>
       ELSE /\ obs' = Observe(address, Decision("sync_after", total_resonance, TRUE,
                                                total_resonance, address))
            /\ pending_bonus' = db_bonus
            /\ HandlerSubmits("sync_after", address, total_resonance, owner)
            /\ UNCHANGED followers
    /\ UNCHANGED <<registered, blockchain_score, confirmed>>

\* POST /api/verify of an address that has a users row, down to the call of
\* sync_score_after_update; the followers row is written after the sync
verify_existing(address, owner) ==
    LET is_new_login_session ==
            last_login[address] = NoLogin \/ now - last_login[address] > LOGIN_SESSION_SECONDS
        new_score == IF is_new_login_session
                     THEN calculate_new_score(score[address], 1 + pending_bonus[address])
                     ELSE score[address]
        db_score == [score EXCEPT ![address] = new_score]
        db_bonus == IF is_new_login_session
                    THEN [pending_bonus EXCEPT ![address] = 0] ELSE pending_bonus
        total_resonance == calculate_resonance_score(registered, db_score, followers, address)
        reg == RegisterFollower(followers, db_bonus, registered, owner, address)
    IN
    /\ address \in registered
    /\ score' = db_score
    /\ last_login' = [last_login EXCEPT ![address] = now]
    /\ IF total_resonance % 2 # 0
       THEN /\ obs' = Observe(address, Decision("sync_after", total_resonance, FALSE, 0, address))
            /\ followers' = reg.followers
            /\ pending_bonus' = reg.pending_bonus
            /\ UNCHANGED <<pc, frame>>
       ELSE /\ obs' = Observe(address, Decision("sync_after", total_resonance, TRUE,
                                                total_resonance, address))
            /\ pending_bonus' = db_bonus
            /\ HandlerSubmits("sync_after", address, total_resonance, owner)
            /\ UNCHANGED followers
    /\ UNCHANGED <<registered, blockchain_score, confirmed>>

\* POST /api/verify of an unknown address: users row with the initial score,
\* followers row, then sync_score_after_update
verify_new(address, owner) ==
    LET db_registered == registered \cup {address}
        db_score == [score EXCEPT ![address] = INITIAL_SCORE * 100]
        reg == RegisterFollower(followers, [pending_bonus EXCEPT ![address] = 0],
                                db_registered, owner, address)
        total_resonance == calculate_resonance_score(db_registered, db_score,
                                                     reg.followers, address)
    IN
    /\ address \notin registered
    /\ registered' = db_registered
    /\ score' = db_score
    /\ last_login' = [last_login EXCEPT ![address] = now]
    /\ blockchain_score' = [blockchain_score EXCEPT ![address] = 0]
    /\ followers' = reg.followers
    /\ pending_bonus' = reg.pending_bonus
    /\ IF total_resonance % 2 # 0
       THEN /\ obs' = Observe(address, Decision("sync_after", total_resonance, FALSE, 0, address))
            /\ UNCHANGED <<pc, frame>>
       ELSE /\ obs' = Observe(address, Decision("sync_after", total_resonance, TRUE,
                                                total_resonance, address))
            /\ HandlerSubmits("sync_after", address, total_resonance, NoOwner)
    /\ UNCHANGED confirmed

verify(address, owner) ==
    /\ HandlerFree
    /\ owner # address
    /\ ~(owner # NoOwner /\ <<owner, address>> \in confirmed)
    /\ events' = events + 1
    /\ \/ verify_existing(address, owner)
       \/ verify_new(address, owner)
    /\ UNCHANGED <<now, scanned, queueVars, web3Vars, chainVars, outside>>

\* sync_score_after_update is back in verify: success only stamps
\* last_blockchain_sync; then the followers row of an existing user
sync_after_return ==
    /\ pc["handler"] = "ubs_ret"
    /\ frame["handler"].op = "sync_after"
    /\ LET f == frame["handler"]
           reg == RegisterFollower(followers, pending_bonus, registered, f.owner, f.address)
       IN /\ followers' = reg.followers
          /\ pending_bonus' = reg.pending_bonus
    /\ frame' = NoFrameOf("handler")
    /\ pc' = [pc EXCEPT !["handler"] = "idle"]
    /\ UNCHANGED <<now, events, registered, score, blockchain_score, last_login, confirmed,
                   scanned, queueVars, web3Vars, chainVars, obs, outside>>

\* the force sync that submits on any difference
force_sync_on_login_any(address, db_score) ==
    LET total_resonance == calculate_resonance_score(registered, db_score, followers, address)
        chain_score == ledger[address]
        diff == total_resonance - chain_score
        sync_score == (total_resonance \div 2) * 2
    IN IF Abs(diff) < 1
       THEN /\ obs' = Observe(address, Decision("force", total_resonance, FALSE, 0, address))
            /\ frame' = NoFrameOf("dashboard")
            /\ pc' = [pc EXCEPT !["dashboard"] = "idle"]
       ELSE /\ obs' = Observe(address, Decision("force", total_resonance, TRUE, sync_score,
                                                address))
            /\ frame' = [frame EXCEPT !["dashboard"] = NoFrame,
                                      !["handler"] = [NoFrame EXCEPT !.op = "force",
                                                                     !.address = address,
                                                                     !.score = sync_score]]
            /\ pc' = [pc EXCEPT !["dashboard"] = "idle", !["handler"] = "ubs_lock"]
\* force_sync_on_login(address, conn), called with the database db_score by
\* the dashboard request, which has left its wait for Blockscout and goes on
\* as the handler that holds the loop
force_sync_on_login(address, db_score) ==
    LET total_resonance == calculate_resonance_score(registered, db_score, followers, address)
        chain_score == ledger[address]
        diff == total_resonance - chain_score
        sync_score == (total_resonance \div 2) * 2
    IN IF Abs(diff) < 2
       THEN /\ obs' = Observe(address, Decision("force", total_resonance, FALSE, 0, address))
            /\ frame' = NoFrameOf("dashboard")
            /\ pc' = [pc EXCEPT !["dashboard"] = "idle"]
       ELSE /\ obs' = Observe(address, Decision("force", total_resonance, TRUE, sync_score,
                                                address))
            /\ frame' = [frame EXCEPT !["dashboard"] = NoFrame,
                                      !["handler"] = [NoFrame EXCEPT !.op = "force",
                                                                     !.address = address,
                                                                     !.score = sync_score]]
            /\ pc' = [pc EXCEPT !["dashboard"] = "idle", !["handler"] = "ubs_lock"]

\* POST /api/verify-dashboard-signature for a known owner, down to the request
\* to Blockscout: db_score is read, then the coroutine waits for the answer
dashboard_select(owner) ==
    /\ owner \in registered
    /\ frame' = [frame EXCEPT !["dashboard"] =
                    [NoFrame EXCEPT !.op = "dashboard", !.address = owner,
                                    !.score = score[owner]]]
    /\ pc' = [pc EXCEPT !["dashboard"] = "blockscout"]
    /\ UNCHANGED <<dbVars, obs>>

\* the same request after Blockscout answered with interaction_count: the
\* score is set to INITIAL_SCORE + interaction_count when that is more than
\* the db_score read before the wait, the login stamped, then
\* force_sync_on_login
dashboard_existing(interaction_count) ==
    LET owner == frame["dashboard"].address
        blockchain_base_score == (INITIAL_SCORE + interaction_count) * 100
        db_score == IF blockchain_base_score > frame["dashboard"].score /\ owner \in registered
                    THEN [score EXCEPT ![owner] = blockchain_base_score] ELSE score
        seen == IF last_login[owner] = NoLogin THEN 0 ELSE last_login[owner]
    IN
    /\ pc["dashboard"] = "blockscout"
    /\ pc["handler"] = "idle"
    /\ LoopFree
    /\ score' = db_score
    /\ last_login' = IF owner \in registered /\ now - seen > LOGIN_SESSION_SECONDS
                     THEN [last_login EXCEPT ![owner] = now] ELSE last_login
    /\ force_sync_on_login(owner, db_score)
    /\ UNCHANGED <<now, events, registered, blockchain_score, pending_bonus, followers,
                   confirmed, scanned, queueVars, web3Vars, chainVars, outside>>

\* the same request for an unknown owner: users row with INITIAL_SCORE and no
\* login stamp, then sync_score_after_update
dashboard_new(owner) ==
    LET db_registered == registered \cup {owner}
        db_score == [score EXCEPT ![owner] = INITIAL_SCORE * 100]
        total_resonance == calculate_resonance_score(db_registered, db_score, followers, owner)
    IN
    /\ owner \notin registered
    /\ registered' = db_registered
    /\ score' = db_score
    /\ last_login' = [last_login EXCEPT ![owner] = NoLogin]
    /\ blockchain_score' = [blockchain_score EXCEPT ![owner] = 0]
    /\ pending_bonus' = [pending_bonus EXCEPT ![owner] = 0]
    /\ IF total_resonance % 2 # 0
       THEN /\ obs' = Observe(owner, Decision("sync_after", total_resonance, FALSE, 0, owner))
            /\ UNCHANGED <<pc, frame>>
       ELSE /\ obs' = Observe(owner, Decision("sync_after", total_resonance, TRUE,
                                              total_resonance, owner))
            /\ HandlerSubmits("sync_after", owner, total_resonance, NoOwner)

verify_dashboard_signature(owner) ==
    /\ HandlerFree
    /\ pc["dashboard"] = "idle"
    /\ events' = events + 1
    /\ \/ dashboard_select(owner)
       \/ dashboard_new(owner)
    /\ UNCHANGED <<now, followers, confirmed, scanned, queueVars, web3Vars, chainVars, outside>>

\* force_sync_on_login after update_blockchain_score returned
force_return ==
    /\ pc["handler"] = "ubs_ret"
    /\ frame["handler"].op = "force"
    /\ blockchain_score' =
           IF frame["handler"].ok
           THEN [blockchain_score EXCEPT ![frame["handler"].address] = frame["handler"].score]
           ELSE blockchain_score
    /\ frame' = NoFrameOf("handler")
    /\ pc' = [pc EXCEPT !["handler"] = "idle"]
    /\ UNCHANGED <<now, events, registered, score, last_login, pending_bonus, followers,
                   confirmed, scanned, queueVars, web3Vars, chainVars, obs, outside>>

\* POST /admin/confirm-follower
confirm_follower(owner, follower) ==
    LET total_resonance == calculate_resonance_score(registered, score, followers, owner)
        put == add_to_sync_queue([queue |-> sync_queue, jobs |-> jobs], owner, total_resonance)
    IN
    /\ HandlerFree
    /\ <<owner, follower>> \in followers
    /\ events' = events + 1
    /\ confirmed' = confirmed \cup {<<owner, follower>>}
    /\ IF total_resonance > 0 /\ total_resonance % 2 = 0
       THEN /\ sync_queue' = put.queue
            /\ jobs' = put.jobs
            /\ obs' = Observe(owner, Decision("confirm", total_resonance, TRUE,
                                              total_resonance, owner))
       ELSE /\ obs' = Observe(owner, Decision("confirm", total_resonance, FALSE, 0, owner))
            /\ UNCHANGED <<sync_queue, jobs>>
    /\ UNCHANGED <<now, registered, score, blockchain_score, last_login, pending_bonus,
                   followers, scanned, pc, frame, web3Vars, chainVars, outside>>

\* DELETE of an account (GDPR): the users row and every followers row of it
gdpr_delete_data(address) ==
    /\ HandlerFree
    /\ address \in registered
    /\ events' = events + 1
    /\ registered' = registered \ {address}
    /\ followers' = {r \in followers : r[1] # address /\ r[2] # address}
    /\ confirmed' = {r \in confirmed : r[1] # address /\ r[2] # address}
    /\ score' = [score EXCEPT ![address] = 0]
    /\ blockchain_score' = [blockchain_score EXCEPT ![address] = 0]
    /\ last_login' = [last_login EXCEPT ![address] = NoLogin]
    /\ pending_bonus' = [pending_bonus EXCEPT ![address] = 0]
    /\ UNCHANGED <<now, scanned, queueVars, pc, frame, web3Vars, chainVars, obs, outside>>

\* a caller invokes web3_service.set_profile_visibility(token_id, is_public)
visibility_request ==
    /\ HandlerFree
    /\ events' = events + 1
    /\ frame' = [frame EXCEPT !["handler"] = [NoFrame EXCEPT !.op = "vis"]]
    /\ pc' = [pc EXCEPT !["handler"] = "vis_nonce"]
    /\ UNCHANGED <<now, dbVars, scanned, queueVars, web3Vars, chainVars, obs, outside>>

\* startup_event, initial_sync_scan: SELECT ... ORDER BY score DESC, and for each
\* user whose total differs from users.blockchain_score and is even, a put
ScanOrders ==
    {o \in [1..Cardinality(registered) -> registered] :
        /\ \A i, j \in DOMAIN o : i # j => o[i] # o[j]
        /\ \A i, j \in DOMAIN o : i < j => score[o[i]] >= score[o[j]]}

ScanWanted(address) ==
    LET total_resonance == calculate_resonance_score(registered, score, followers, address)
    IN total_resonance # blockchain_score[address] /\ total_resonance % 2 = 0

RECURSIVE ScanFrom(_, _, _)
ScanFrom(o, i, st) ==
    IF i > Len(o) THEN st
    ELSE LET address == o[i]
             total_resonance == calculate_resonance_score(registered, score, followers, address)
             d == Decision("scan", total_resonance, ScanWanted(address),
                           IF ScanWanted(address) THEN total_resonance ELSE 0, address)
             put == IF ScanWanted(address)
                    THEN add_to_sync_queue(st, address, total_resonance)
                    ELSE st
         IN ScanFrom(o, i + 1, [queue |-> put.queue, jobs |-> put.jobs,
                                obs |-> [st.obs EXCEPT ![address] = Append(@, d)]])

initial_sync_scan ==
    /\ ~scanned
    /\ LoopFree
    /\ scanned' = TRUE
    /\ \E o \in ScanOrders :
        LET st == ScanFrom(o, 1, [queue |-> sync_queue, jobs |-> jobs, obs |-> obs])
        IN /\ sync_queue' = st.queue
           /\ jobs' = st.jobs
           /\ obs' = st.obs
    /\ UNCHANGED <<now, events, dbVars, pc, frame, web3Vars, chainVars, outside>>

\* time passes while no coroutine is ready to run
Tick ==
    /\ HandlerFree
    /\ pc["worker"] = "idle" => sync_queue = <<>>
    /\ pc["worker"] = "sleep" => now < frame["worker"].wake_at
    /\ events' = events + 1
    /\ now' = now + TickSeconds
    /\ UNCHANGED <<dbVars, scanned, queueVars, pc, frame, web3Vars, chainVars, obs, outside>>

\* ------------------------------------------- telegram_group_bot.py
\* Updates are dispatched one at a time; while a handler awaits the score API
\* only the cleanup task and store_pending_token can run, and neither touches
\* what the handler goes on to use, so a handler is one step and the answer of
\* the score API (NoScore for None) is its input.
NoSession == [active |-> FALSE, wallet |-> "", intact |-> TRUE, last_score |-> 0,
              session_start |-> 0, last_score_check |-> 0, last_activity |-> 0,
              expires |-> 0]
NoToken == [present |-> FALSE, wallet |-> "", score |-> 0, exp |-> 0, gen |-> 0]
NoData == [data |-> FALSE, wallet |-> "", score |-> 0]
NoFetch == [n |-> 0, at |-> 0, before |-> 0]

\* UserSession.is_expired, needs_score_refresh, can_write, can_vote_poll
is_expired(session) == now > session.expires
needs_score_refresh(session) == now - session.last_score_check > SCORE_REFRESH_SECONDS
can_write(session, min) == session.last_score >= min
can_vote_poll(session, min) == session.last_score >= min

\* UserSession.update_score
update_score(session, new_score) ==
    [session EXCEPT !.last_score = new_score, !.last_score_check = now]

\* the session is prolonged but last_activity is left as it was
extend_session_idle(session, timeout_seconds) ==
    [session EXCEPT !.expires = session.last_activity + timeout_seconds]
\* UserSession.extend_session
extend_session(session, timeout_seconds) ==
    [session EXCEPT !.last_activity = now, !.expires = now + timeout_seconds]

\* UserSession.get_wallet_address: wallet_crypto.decrypt raises InvalidTag when
\* the stored ciphertext is not the one encrypt returned (ok is FALSE then)
get_wallet_address(session) == [ok |-> session.intact, wallet |-> session.wallet]

\* SessionManager.store_pending_token
store_pending_token(invite_link, initial_score) ==
    /\ events < MaxBotEvents
    /\ events' = events + 1
    /\ pending_tokens' = [pending_tokens EXCEPT ![invite_link] =
                             [present |-> TRUE, wallet |-> "w", score |-> initial_score,
                              exp |-> now + PENDING_TOKEN_SECONDS,
                              gen |-> stored[invite_link] + 1]]
    /\ stored' = [stored EXCEPT ![invite_link] = @ + 1]
    /\ UNCHANGED <<now, sessions, votes, calls, flips, joins, ballots, fetched, closed,
                   results, min_score, removed, serverState, tokenVars,
                   pureVars>>

\* SessionManager.claim_pending_token: what it returns
claim_pending_token(invite_link) ==
    IF invite_link # NoLink /\ pending_tokens[invite_link].present
    THEN IF now > pending_tokens[invite_link].exp
         THEN NoData
         ELSE [data |-> TRUE, wallet |-> pending_tokens[invite_link].wallet,
               score |-> pending_tokens[invite_link].score]
    ELSE NoData

\* the token is read with get and stays in the map
PeekPendingToken(invite_link) == pending_tokens

\* SessionManager.claim_pending_token: self.pending_tokens afterwards
PopPendingToken(invite_link) ==
    IF invite_link # NoLink /\ pending_tokens[invite_link].present
    THEN [pending_tokens EXCEPT ![invite_link] = NoToken]
    ELSE pending_tokens

\* SessionManager.create_session
create_session(wallet_address, initial_score, timeout) ==
    [active |-> TRUE, wallet |-> wallet_address, intact |-> TRUE,
     last_score |-> initial_score, session_start |-> now, last_score_check |-> now,
     last_activity |-> now, expires |-> now + timeout]

\* the lookup deletes the session whether or not it has expired
get_session_gone(telegram_id) == NoSession
\* SessionManager.get_session: the session it returns (NoSession for None); an
\* expired session is deleted from the map, which the handlers write back
get_session(telegram_id) ==
    IF sessions[telegram_id].active /\ ~is_expired(sessions[telegram_id])
    THEN sessions[telegram_id] ELSE NoSession

Call(kind, cause) == [kind |-> kind, cause |-> cause]

\* TelegramGroupBot.handle_new_member for one new member
handle_new_member(user_id, invite_link, live) ==
    LET token_data == claim_pending_token(invite_link)
        live_score == IF live = NoScore THEN token_data.score ELSE live
        session == create_session(token_data.wallet, live_score, DEFAULT_SESSION_TIMEOUT)
        seen == IF invite_link = NoLink THEN NoToken ELSE pending_tokens[invite_link]
        granted == token_data.data /\ can_write(session, min_score)
    IN
    /\ events < MaxBotEvents
    /\ events' = events + 1
    /\ pending_tokens' = PopPendingToken(invite_link)
    /\ sessions' = IF token_data.data
                   THEN [sessions EXCEPT ![user_id] = session] ELSE sessions
    /\ fetched' = IF token_data.data
                  THEN [fetched EXCEPT ![user_id] = NoFetch] ELSE fetched
    /\ calls' = [calls EXCEPT ![user_id] =
                    Append(@, Call(IF granted THEN "unmute" ELSE "mute", "join"))]
    /\ joins' = Append(joins, [user |-> user_id, link |-> invite_link,
                               present |-> seen.present, gen |-> seen.gen,
                               expired |-> seen.present /\ now > seen.exp,
                               claimed |-> token_data.data,
                               live |-> IF token_data.data THEN live ELSE NoScore,
                               session |-> token_data.data, granted |-> granted])
    /\ removed' = IF seen.present
                  THEN [removed EXCEPT ![invite_link] = "claim"] ELSE removed
    /\ UNCHANGED <<now, votes, stored, flips, ballots, closed, results, min_score,
                   serverState, tokenVars,
                   pureVars>>

\* TelegramGroupBot.handle_message: the session is extended; when a refresh is
\* due the wallet is decrypted (InvalidTag ends the handler in its except) and
\* the fetch is started, which returns live (NoScore for None)
handle_message(user_id, live) ==
    LET session == get_session(user_id)
        extended == extend_session(session, DEFAULT_SESSION_TIMEOUT)
        fetch == /\ session.active
                 /\ needs_score_refresh(extended)
                 /\ get_wallet_address(extended).ok
        refreshed == fetch /\ live # NoScore
        old_can_write == session.last_score >= min_score
        new_can_write == live >= min_score
    IN
    /\ events < MaxBotEvents
    /\ events' = events + 1
    /\ sessions' = [sessions EXCEPT ![user_id] =
                       IF ~session.active THEN NoSession
                       ELSE IF refreshed THEN update_score(extended, live)
                       ELSE extended]
    /\ fetched' = IF fetch
                  THEN [fetched EXCEPT ![user_id] =
                           [n |-> @.n + 1, at |-> now, before |-> @.at]]
                  ELSE fetched
    /\ calls' = IF refreshed /\ old_can_write /\ ~new_can_write
                THEN [calls EXCEPT ![user_id] = Append(@, Call("mute", "refresh"))]
                ELSE IF refreshed /\ ~old_can_write /\ new_can_write
                THEN [calls EXCEPT ![user_id] = Append(@, Call("unmute", "refresh"))]
                ELSE calls
    /\ flips' = IF refreshed /\ old_can_write # new_can_write
                THEN [flips EXCEPT ![user_id] = @ + 1] ELSE flips
    /\ removed' = IF sessions[user_id].active /\ ~session.active
                  THEN [removed EXCEPT ![user_id] = "lookup"] ELSE removed
    /\ UNCHANGED <<now, pending_tokens, votes, stored, joins, ballots, closed, results,
                   min_score, serverState, tokenVars,
                   pureVars>>

\* TelegramGroupBot.cmd_mystatus of a member who is not an admin; InvalidTag
\* leaves the handler before the fetch
cmd_mystatus(user_id, live) ==
    LET session == get_session(user_id)
        fetch == session.active /\ get_wallet_address(session).ok
        old_can_write == can_write(session, min_score)
        new_can_write == live >= min_score
    IN
    /\ events < MaxBotEvents
    /\ events' = events + 1
    /\ sessions' = [sessions EXCEPT ![user_id] =
                       IF ~session.active THEN NoSession
                       ELSE IF fetch /\ live # NoScore THEN update_score(session, live)
                       ELSE session]
    /\ flips' = IF fetch /\ live # NoScore /\ old_can_write # new_can_write
                THEN [flips EXCEPT ![user_id] = @ + 1] ELSE flips
    /\ removed' = IF sessions[user_id].active /\ ~session.active
                  THEN [removed EXCEPT ![user_id] = "lookup"] ELSE removed
    /\ UNCHANGED <<now, pending_tokens, votes, stored, calls, joins, ballots, fetched,
                   closed, results, min_score, serverState, tokenVars,
                   pureVars>>

\* TelegramGroupBot.cmd_mystatus with the time its request to the score API
\* takes: the session is looked up, `await score_api.get_resonance_score(...)`
\* returns live after the given seconds, and update_score stamps the session
\* object the handler holds with the time it is then
cmd_mystatus_fetch(user_id, live, seconds) ==
    LET session == get_session(user_id)
        fetch == session.active /\ get_wallet_address(session).ok
        old_can_write == can_write(session, min_score)
        new_can_write == live >= min_score
    IN
    /\ events < MaxBotEvents
    /\ events' = events + 1
    /\ now' = IF fetch THEN now + seconds ELSE now
    /\ sessions' = [sessions EXCEPT ![user_id] =
                       IF ~session.active THEN NoSession
                       ELSE IF fetch /\ live # NoScore
                       THEN [session EXCEPT !.last_score = live,
                                            !.last_score_check = now + seconds]
                       ELSE session]
    /\ flips' = IF fetch /\ live # NoScore /\ old_can_write # new_can_write
                THEN [flips EXCEPT ![user_id] = @ + 1] ELSE flips
    /\ removed' = IF sessions[user_id].active /\ ~session.active
                  THEN [removed EXCEPT ![user_id] = "lookup"] ELSE removed
    /\ UNCHANGED <<pending_tokens, votes, stored, calls, joins, ballots, fetched,
                   closed, results, min_score, serverState, tokenVars,
                   pureVars>>

\* TelegramGroupBot.cmd_setminscore of an admin, with a score from 0 to 100
cmd_setminscore(new_min_score) ==
    /\ events < MaxBotEvents
    /\ events' = events + 1
    /\ min_score' = new_min_score
    /\ UNCHANGED <<now, sessions, pending_tokens, votes, stored, calls, flips, joins,
                   ballots, fetched, closed, results, removed, serverState, tokenVars,
                   pureVars>>

\* the first vote of a user stays
vote_first(user_id, option_index) ==
    IF closed THEN [ok |-> FALSE, votes |-> votes]
    ELSE IF option_index < 0 \/ option_index >= NumOptions
    THEN [ok |-> FALSE, votes |-> votes]
    ELSE [ok |-> TRUE,
          votes |-> IF votes[user_id] = NoVote
                    THEN [votes EXCEPT ![user_id] = option_index] ELSE votes]
\* PollManager.vote on the one poll (it has no expires_at): what it returns
\* and poll.votes afterwards
vote(user_id, option_index) ==
    IF closed THEN [ok |-> FALSE, votes |-> votes]
    ELSE IF option_index < 0 \/ option_index >= NumOptions
    THEN [ok |-> FALSE, votes |-> votes]
    ELSE [ok |-> TRUE, votes |-> [votes EXCEPT ![user_id] = option_index]]

\* PollManager.get_results: the count per option, options numbered from 1
get_results(poll_votes) ==
    [i \in 1..NumOptions |-> Cardinality({u \in Users : poll_votes[u] = i - 1})]

\* TelegramGroupBot.handle_poll_vote: the number vote_num sent as a reply to
\* the message of the poll
handle_poll_vote(user_id, live, vote_num) ==
    LET session == get_session(user_id)
        fetch == session.active /\ get_wallet_address(session).ok
        scored == IF fetch /\ live # NoScore THEN update_score(session, live) ELSE session
        cast == vote(user_id, vote_num - 1)
        accepted == fetch /\ can_vote_poll(scored, PollMinScore) /\ cast.ok
        old_can_write == can_write(session, min_score)
        new_can_write == can_write(scored, min_score)
    IN
    /\ events < MaxBotEvents
    /\ events' = events + 1
    /\ IF closed
       THEN /\ ballots' = Append(ballots, [user |-> user_id, closed |-> TRUE,
                                           session |-> FALSE, live |-> NoScore,
                                           option |-> vote_num - 1, accepted |-> FALSE])
            /\ UNCHANGED <<sessions, votes, flips, removed>>
       ELSE /\ sessions' = [sessions EXCEPT ![user_id] =
                               IF ~session.active THEN NoSession ELSE scored]
            /\ removed' = IF sessions[user_id].active /\ ~session.active
                          THEN [removed EXCEPT ![user_id] = "lookup"] ELSE removed
            /\ votes' = IF accepted THEN cast.votes ELSE votes
            /\ flips' = IF session.active /\ old_can_write # new_can_write
                        THEN [flips EXCEPT ![user_id] = @ + 1] ELSE flips
            /\ ballots' = Append(ballots, [user |-> user_id, closed |-> FALSE,
                                           session |-> session.active,
                                           live |-> IF fetch THEN live ELSE NoScore,
                                           option |-> vote_num - 1,
                                           accepted |-> accepted])
    /\ UNCHANGED <<now, pending_tokens, stored, calls, joins, fetched, closed, results,
                   min_score, serverState, tokenVars,
                   pureVars>>

\* the results are shown but the poll is left open
cmd_closepoll_open ==
    /\ events < MaxBotEvents
    /\ events' = events + 1
    /\ results' = get_results(votes)
    /\ UNCHANGED <<now, sessions, pending_tokens, votes, stored, calls, flips, joins,
                   ballots, fetched, closed, min_score, removed, serverState, tokenVars,
                   pureVars>>
\* TelegramGroupBot.cmd_closepoll of an admin for the one poll: close_poll,
\* then get_results
cmd_closepoll ==
    /\ events < MaxBotEvents
    /\ events' = events + 1
    /\ closed' = TRUE
    /\ results' = get_results(votes)
    /\ UNCHANGED <<now, sessions, pending_tokens, votes, stored, calls, flips, joins,
                   ballots, fetched, min_score, removed, serverState, tokenVars,
                   pureVars>>

\* TelegramGroupBot.handle_left_member: SessionManager.end_session
handle_left_member(user_id) ==
    /\ events < MaxBotEvents
    /\ events' = events + 1
    /\ sessions[user_id].active
    /\ sessions' = [sessions EXCEPT ![user_id] = NoSession]
    /\ removed' = [removed EXCEPT ![user_id] = "leave"]
    /\ UNCHANGED <<now, pending_tokens, votes, stored, calls, flips, joins, ballots,
                   fetched, closed, results, min_score, serverState, tokenVars,
                   pureVars>>

\* The bytes of a session's encrypted_wallet are changed in memory, the fault
\* that makes AESGCM.decrypt raise InvalidTag.
corrupt_wallet(user_id) ==
    /\ events < MaxBotEvents
    /\ events' = events + 1
    /\ sessions[user_id].active
    /\ sessions[user_id].intact
    /\ sessions' = [sessions EXCEPT ![user_id].intact = FALSE]
    /\ UNCHANGED <<now, pending_tokens, votes, stored, calls, flips, joins, ballots,
                   fetched, closed, results, min_score, removed, serverState, tokenVars,
                   pureVars>>

\* every session is swept, expired or not
SweptSessionsAll(t) == [u \in Users |-> NoSession]
\* the sessions and pending tokens SessionManager._cleanup_expired leaves at
\* time t
SweptSessions(t) ==
    [u \in Users |->
        IF sessions[u].active /\ t > sessions[u].expires THEN NoSession ELSE sessions[u]]
SweptTokens(t) ==
    [l \in Links |->
        IF pending_tokens[l].present /\ t > pending_tokens[l].exp
        THEN NoToken ELSE pending_tokens[l]]

\* what _cleanup_expired deletes at time t, noted as swept
SweptCauses(t) ==
    [x \in Users \cup Links |->
        IF x \in Users
        THEN IF sessions[x].active /\ t > sessions[x].expires THEN "sweep" ELSE removed[x]
        ELSE IF pending_tokens[x].present /\ t > pending_tokens[x].exp
             THEN "sweep" ELSE removed[x]]

\* SessionManager._cleanup_expired, run by _cleanup_loop
_cleanup_expired ==
    /\ \/ \E u \in Users : sessions[u].active /\ is_expired(sessions[u])
       \/ \E l \in Links : pending_tokens[l].present /\ now > pending_tokens[l].exp
    /\ sessions' = SweptSessions(now)
    /\ pending_tokens' = SweptTokens(now)
    /\ removed' = SweptCauses(now)
    /\ UNCHANGED <<now, events, votes, stored, calls, flips, joins, ballots, fetched,
                   closed, results, min_score, serverState, tokenVars,
                   pureVars>>

\* SessionManager._cleanup_loop, one iteration: asyncio.sleep(CLEANUP_SECONDS),
\* then _cleanup_expired.  The task starts with the bot at time 0, so it wakes
\* at the multiples of CLEANUP_SECONDS; an iteration that finds both maps
\* empty changes nothing and is left out.
_cleanup_loop ==
    LET wake == (now \div CLEANUP_SECONDS + 1) * CLEANUP_SECONDS
    IN
    /\ \/ \E u \in Users : sessions[u].active
       \/ \E l \in Links : pending_tokens[l].present
    /\ now' = wake
    /\ sessions' = SweptSessions(wake)
    /\ pending_tokens' = SweptTokens(wake)
    /\ removed' = SweptCauses(wake)
    /\ UNCHANGED <<events, votes, stored, calls, flips, joins, ballots, fetched,
                   closed, results, min_score, serverState, tokenVars, pureVars>>

\* time passes between two updates while the cleanup task sleeps
BotTickWithin(seconds) ==
    /\ events < MaxBotEvents
    /\ (now % CLEANUP_SECONDS) + seconds < CLEANUP_SECONDS
    /\ events' = events + 1
    /\ now' = now + seconds
    /\ UNCHANGED <<botVars, serverState, tokenVars, pureVars>>

\* time passes between two updates
BotTick(seconds) ==
    /\ events < MaxBotEvents
    /\ events' = events + 1
    /\ now' = now + seconds
    /\ UNCHANGED <<botVars, serverState, tokenVars, pureVars>>

InitBot ==
    /\ sessions = [u \in Users |-> NoSession]
    /\ pending_tokens = [l \in Links |-> NoToken]
    /\ votes = [u \in Users |-> NoVote]
    /\ stored = [l \in Links |-> 0]
    /\ calls = [u \in Users |-> <<>>]
    /\ flips = [u \in Users |-> 0]
    /\ joins = <<>>
    /\ ballots = <<>>
    /\ fetched = [u \in Users |-> NoFetch]
    /\ closed = FALSE
    /\ results = <<>>
    /\ min_score = DEFAULT_MIN_SCORE
    /\ removed = [x \in Users \cup Links |-> ""]

NextBot ==
    \/ \E l \in Links, sc \in TokenScores : store_pending_token(l, sc)
    \/ \E u \in Users, l \in Links \cup {NoLink}, live \in LiveScores :
          handle_new_member(u, l, live)
    \/ \E u \in Users, live \in LiveScores : handle_message(u, live)
    \/ \E u \in Users, live \in LiveScores : cmd_mystatus(u, live)
    \/ \E u \in Users, live \in LiveScores, vote_num \in 1..(NumOptions + 1) :
          handle_poll_vote(u, live, vote_num)
    \/ cmd_closepoll
    \/ \E new_min_score \in MinScores : cmd_setminscore(new_min_score)
    \/ \E u \in Users : handle_left_member(u)
    \/ \E u \in Users : corrupt_wallet(u)
    \/ _cleanup_expired
    \/ \E seconds \in {TickSeconds, LongTickSeconds} : BotTick(seconds)

\* ------------------- telegram_group_bot.py: CapabilityTokenManager
\* The JSON text of a payload is a sequence of bytes: one for caps (0 for an
\* empty list), one for exp, the rest for link.  base64 is computed on the
\* bytes as the codec computes it: chars are 6-bit values, pad counts the "=".
RECURSIVE urlsafe_b64encode(_)
urlsafe_b64encode(b) ==
    IF Len(b) = 0 THEN [chars |-> <<>>, pad |-> 0]
    ELSE IF Len(b) = 1
    THEN [chars |-> <<b[1] \div 4, (b[1] % 4) * 16>>, pad |-> 2]
    ELSE IF Len(b) = 2
    THEN [chars |-> <<b[1] \div 4, (b[1] % 4) * 16 + b[2] \div 16, (b[2] % 16) * 4>>,
          pad |-> 1]
    ELSE LET rest == urlsafe_b64encode(SubSeq(b, 4, Len(b)))
         IN [chars |-> <<b[1] \div 4, (b[1] % 4) * 16 + b[2] \div 16,
                         (b[2] % 16) * 4 + b[3] \div 64, b[3] % 64>> \o rest.chars,
             pad |-> rest.pad]

\* base64.urlsafe_b64decode of well padded text: the bits left over in the
\* last char before the padding are dropped
RECURSIVE urlsafe_b64decode(_, _)
urlsafe_b64decode(c, pad) ==
    IF Len(c) = 0 THEN <<>>
    ELSE IF Len(c) = 2 /\ pad = 2
    THEN <<c[1] * 4 + c[2] \div 16>>
    ELSE IF Len(c) = 3 /\ pad = 1
    THEN <<c[1] * 4 + c[2] \div 16, (c[2] % 16) * 16 + c[3] \div 4>>
    ELSE <<c[1] * 4 + c[2] \div 16, (c[2] % 16) * 16 + c[3] \div 4, (c[3] % 4) * 64 + c[4]>>
         \o urlsafe_b64decode(SubSeq(c, 5, Len(c)), pad)

\* hmac.new(self.secret, payload_json, sha256).hexdigest(): one digest per
\* text, no two texts with the same digest; any other string has flip # 0
Hmac(payload_json) == [of |-> payload_json, flip |-> 0]

NoPayload == [valid |-> FALSE, caps |-> 0, exp |-> 0, link |-> <<>>]

\* json.loads(payload_json)
Loads(payload_json) ==
    [valid |-> TRUE, caps |-> payload_json[1], exp |-> payload_json[2],
     link |-> SubSeq(payload_json, 3, Len(payload_json))]

\* json.dumps(payload, sort_keys=True)
Dumps(caps, exp, link) == <<caps, exp>> \o link

\* CapabilityTokenManager.create_token: the token it returns
create_token(capabilities, invite_link, expire_seconds) ==
    LET payload_json == Dumps(capabilities, now + expire_seconds, invite_link)
        payload_b64 == urlsafe_b64encode(payload_json)
    IN [chars |-> payload_b64.chars, pad |-> payload_b64.pad, sig |-> Hmac(payload_json)]

\* CapabilityTokenManager.verify_token: the payload it returns (NoPayload for None)
verify_token(tok) ==
    LET payload_json == urlsafe_b64decode(tok.chars, tok.pad)
        expected_sig == Hmac(payload_json)
    IN IF tok.sig # expected_sig THEN NoPayload
       ELSE IF now > Loads(payload_json).exp THEN NoPayload
       ELSE Loads(payload_json)

\* a token is created for an invite link (store_capabilities_for_invite)
CreateToken(capabilities, invite_link) ==
    /\ events < MaxTokenEvents
    /\ now + PENDING_TOKEN_SECONDS <= ByteMax
    /\ events' = events + 1
    /\ token' = create_token(capabilities, invite_link, PENDING_TOKEN_SECONDS)
    /\ issued' = [present |-> TRUE, token |-> token', changed |-> "no",
                  exp |-> now + PENDING_TOKEN_SECONDS]
    /\ UNCHANGED <<now, verdict, serverState, botVars, pureVars>>

\* somebody changes one character of the payload part of the token
TamperPayload(i, c) ==
    /\ issued.present /\ issued.changed = "no"
    /\ i \in 1..Len(token.chars)
    /\ c # token.chars[i]
    /\ token' = [token EXCEPT !.chars[i] = c]
    /\ issued' = [issued EXCEPT !.changed = "payload"]
    /\ UNCHANGED <<now, events, verdict, serverState, botVars, pureVars>>

\* somebody changes one character of the signature part of the token
TamperSignature ==
    /\ issued.present /\ issued.changed = "no"
    /\ token' = [token EXCEPT !.sig.flip = 1]
    /\ issued' = [issued EXCEPT !.changed = "signature"]
    /\ UNCHANGED <<now, events, verdict, serverState, botVars, pureVars>>

\* the token is presented
VerifyToken ==
    /\ issued.present
    /\ verdict' = [done |-> TRUE, payload |-> verify_token(token), at |-> now,
                   changed |-> issued.changed, exp |-> issued.exp]
    /\ UNCHANGED <<now, events, token, issued, serverState, botVars, pureVars>>

TokenTick ==
    /\ events < MaxTokenEvents
    /\ events' = events + 1
    /\ now' = now + TickSeconds
    /\ UNCHANGED <<tokenVars, serverState, botVars, pureVars>>

InitToken ==
    /\ token = [chars |-> <<>>, pad |-> 0, sig |-> Hmac(<<>>)]
    /\ issued = [present |-> FALSE, token |-> token, changed |-> "no", exp |-> 0]
    /\ verdict = [done |-> FALSE, payload |-> NoPayload, at |-> 0, changed |-> "no",
                  exp |-> 0]

NextToken ==
    \/ \E capabilities \in {0, 1}, invite_link \in {<<>>, <<7>>} :
          CreateToken(capabilities, invite_link)
    \/ \E i \in 1..4, c \in 0..63 : TamperPayload(i, c)
    \/ TamperSignature
    \/ VerifyToken
    \/ TokenTick

\* ------------------------------------------ calls of pure functions
MaxN == 3
MaxWalletLen == 3
_SESSION_ENCRYPTION_KEY == 90
NoCall == [fn |-> "none"]

\* GroupConfig.poll_score_levels
DEFAULT_POLL_SCORE_LEVELS == <<50, 55, 60, 65, 70, 75, 80, 85, 90, 95, 100>>

RECURSIVE PollCapabilities(_, _, _)
PollCapabilities(score_, levels, i) ==
    IF i > Len(levels) THEN <<>>
    ELSE (IF score_ >= levels[i] THEN << <<"poll", levels[i]>> >> ELSE <<>>)
         \o PollCapabilities(score_, levels, i + 1)

\* write is granted above min_score only
generate_capabilities_above(score_, config) ==
    (IF score_ > config.min_score THEN << <<"write">> >> ELSE <<>>)
    \o PollCapabilities(score_, config.poll_score_levels, 1)
\* CapabilityTokenManager.generate_capabilities(score, config): the list caps,
\* "write" as <<"write">> and f"poll_{level}" as <<"poll", level>>
generate_capabilities(score_, config) ==
    (IF score_ >= config.min_score THEN << <<"write">> >> ELSE <<>>)
    \o PollCapabilities(score_, config.poll_score_levels, 1)

\* ------------------- telegram_group_bot.py: SecureWalletStore
\* A string is a sequence of code points, bytes a sequence of 0..255.
\* str.lower() on the characters of WalletChars: A-Z go to a-z
RECURSIVE lower(_)
lower(w) ==
    IF Len(w) = 0 THEN <<>>
    ELSE <<IF w[1] \in 65..90 THEN w[1] + 32 ELSE w[1]>> \o lower(Tail(w))

\* str.encode('utf-8') for code points below 2048
RECURSIVE encode_utf8(_)
encode_utf8(w) ==
    IF Len(w) = 0 THEN <<>>
    ELSE (IF w[1] < 128 THEN <<w[1]>>
          ELSE <<192 + (w[1] \div 64), 128 + (w[1] % 64)>>) \o encode_utf8(Tail(w))

\* bytes.decode('utf-8') of well-formed text of code points below 2048
RECURSIVE decode_utf8(_)
decode_utf8(b) ==
    IF Len(b) = 0 THEN <<>>
    ELSE IF b[1] < 128 THEN <<b[1]>> \o decode_utf8(Tail(b))
    ELSE <<(b[1] - 192) * 64 + (b[2] - 128)>> \o decode_utf8(SubSeq(b, 3, Len(b)))

\* bytes.decode('latin-1') in the place of utf-8: one character per byte
decode_latin1(b) == b

\* AESGCM(key).encrypt(nonce, data, None): the data masked by a key stream of
\* key and nonce, and a tag that no other key, nonce or body has
Mask(key, nonce, i) == (key + nonce * 7 + i * 13) % 256
aesgcm_tag(key, nonce, body) == [key |-> key, nonce |-> nonce, body |-> body]
aesgcm_encrypt(key, nonce, data) ==
    LET body == [i \in 1..Len(data) |-> (data[i] + Mask(key, nonce, i)) % 256]
    IN [body |-> body, tag |-> aesgcm_tag(key, nonce, body)]

\* AESGCM(key).decrypt(nonce, ciphertext, None): ok is FALSE for InvalidTag
aesgcm_decrypt(key, nonce, ciphertext) ==
    IF ciphertext.tag # aesgcm_tag(key, nonce, ciphertext.body)
    THEN [ok |-> FALSE, data |-> <<>>]
    ELSE [ok |-> TRUE,
          data |-> [i \in 1..Len(ciphertext.body) |->
                       (ciphertext.body[i] + 256 - Mask(key, nonce, i)) % 256]]

\* SecureWalletStore.encrypt with the nonce secrets.token_bytes(12) returned
encrypt(wallet_address, nonce) ==
    [nonce |-> nonce,
     ciphertext |-> aesgcm_encrypt(_SESSION_ENCRYPTION_KEY, nonce,
                                   encode_utf8(lower(wallet_address)))]

\* the plaintext is decoded as latin-1
decrypt_latin1(nonce, ciphertext) ==
    LET plaintext == aesgcm_decrypt(_SESSION_ENCRYPTION_KEY, nonce, ciphertext)
    IN [ok |-> plaintext.ok, wallet |-> decode_latin1(plaintext.data)]
\* SecureWalletStore.decrypt: ok is FALSE when InvalidTag is raised
decrypt(nonce, ciphertext) ==
    LET plaintext == aesgcm_decrypt(_SESSION_ENCRYPTION_KEY, nonce, ciphertext)
    IN [ok |-> plaintext.ok, wallet |-> decode_utf8(plaintext.data)]

\* wallet strings: "0", "x", "A", "a", "F", "f" and "é", up to MaxWalletLen long
WalletChars == {48, 120, 65, 97, 70, 102, 233}
WalletInputs == UNION {[1..k -> WalletChars] : k \in 0..MaxWalletLen}
NonceInputs == {0, 201}

\* the scores of the users table, in hundredths
ScoreInputs == (INITIAL_SCORE * 100)..(MAX_SCORE * 100)
OwnInputs == {5000, 9277}
FollowerInputs == {4000, 6000, 9107, 9152, 9710}
FollowerRows == UNION {[1..k -> FollowerInputs] : k \in 0..MaxN}
ConfigInputs ==
    [min_score : {DEFAULT_MIN_SCORE, 60},
     poll_score_levels : {DEFAULT_POLL_SCORE_LEVELS, <<60, 50>>, <<>>}]

PureCalls ==
    [fn : {"calculate_new_score"}, current_score : ScoreInputs, interactions : 0..MaxN]
    \cup [fn : {"calculate_resonance_score"}, own_score : OwnInputs, rows : FollowerRows]
    \cup [fn : {"generate_capabilities"}, score : 0..MAX_SCORE, config : ConfigInputs]
    \cup [fn : {"decrypt"}, wallet_address : WalletInputs, nonce : NonceInputs]

call_calculate_new_score ==
    /\ pure_call.fn = "calculate_new_score"
    /\ pure_ret = <<>>
    /\ pure_ret' = <<calculate_new_score(pure_call.current_score, pure_call.interactions)>>
    /\ UNCHANGED <<serverVars, botVars, tokenVars, pure_call>>

call_calculate_resonance_score ==
    /\ pure_call.fn = "calculate_resonance_score"
    /\ pure_ret = <<>>
    /\ pure_ret' = <<TotalResonance(pure_call.own_score, pure_call.rows)>>
    /\ UNCHANGED <<serverVars, botVars, tokenVars, pure_call>>

call_generate_capabilities ==
    /\ pure_call.fn = "generate_capabilities"
    /\ pure_ret = <<>>
    /\ pure_ret' = <<generate_capabilities(pure_call.score, pure_call.config)>>
    /\ UNCHANGED <<serverVars, botVars, tokenVars, pure_call>>

\* wallet_crypto.decrypt(*wallet_crypto.encrypt(wallet_address))
call_decrypt ==
    LET sealed == encrypt(pure_call.wallet_address, pure_call.nonce)
    IN
    /\ pure_call.fn = "decrypt"
    /\ pure_ret = <<>>
    /\ pure_ret' = <<decrypt(sealed.nonce, sealed.ciphertext)>>
    /\ UNCHANGED <<serverVars, botVars, tokenVars, pure_call>>

NextPure ==
    \/ call_calculate_new_score
    \/ call_calculate_resonance_score
    \/ call_generate_capabilities
    \/ call_decrypt

\* ------------------------------------------------- the server
\* The server starts on a database of two users with the initial score whose
\* totals are on the ledger already; a2 may follow a1.
InitServer ==
    /\ now = 0
    /\ events = 0
    /\ registered = Addresses
    /\ score = [a \in Addresses |-> INITIAL_SCORE * 100]
    /\ last_login = [a \in Addresses |-> 0]
    /\ pending_bonus = [a \in Addresses |-> 0]
    /\ followers \in {{}, {<<"a1", "a2">>}}
    /\ confirmed = {}
    /\ blockchain_score =
           [a \in Addresses |-> calculate_resonance_score(registered, score, followers, a)]
    /\ ledger = blockchain_score
    /\ scanned = FALSE
    /\ sync_queue = <<>>
    /\ jobs = <<>>
    /\ pc = [t \in Tasks |-> "idle"]
    /\ frame = [t \in Tasks |-> NoFrame]
    /\ _nonce_lock = "free"
    /\ _last_nonce = NoNonce
    /\ _last_nonce_time = 0
    /\ tx_count = 0
    /\ txs = <<>>
    /\ obs = [a \in Addresses |-> <<>>]

Init == InitServer /\ InitBot /\ InitToken /\ pure_call = NoCall /\ pure_ret = <<>>

Next ==
    \/ initial_sync_scan
    \/ \E a \in Addresses, o \in Addresses \cup {NoOwner} : verify(a, o)
    \/ \E a \in Addresses : verify_dashboard_signature(a)
    \/ \E n \in 0..MaxInteractions : dashboard_existing(n)
    \/ \E a, f \in Addresses : confirm_follower(a, f)
    \/ \E a \in Addresses : gdpr_delete_data(a)
    \/ visibility_request
    \/ Tick
    \/ process_sync_queue
    \/ update_blockchain_score("handler")
    \/ set_profile_visibility("handler")
    \/ sync_after_return
    \/ force_return
    \/ stop_sync_queue_processor
    \/ Mine

Spec == Init /\ [][Next]_vars

SpecBot == Init /\ [][NextBot]_vars

\* The bot with its cleanup task running: time passes by the sleeps of
\* _cleanup_loop and, between two wake-ups, by ShortTicks.
NextSweep ==
    \/ \E l \in Links, sc \in TokenScores :
          events < MaxSweepEvents /\ store_pending_token(l, sc)
    \/ \E u \in Users, l \in Links \cup {NoLink}, live \in LiveScores :
          events < MaxSweepEvents /\ handle_new_member(u, l, live)
    \/ \E u \in Users, live \in LiveScores :
          events < MaxSweepEvents /\ handle_message(u, live)
    \/ \E u \in Users : events < MaxSweepEvents /\ handle_left_member(u)
    \/ \E seconds \in ShortTicks : events < MaxSweepEvents /\ BotTickWithin(seconds)
    \/ _cleanup_loop

SpecSweep == Init /\ [][NextSweep]_vars /\ WF_vars(_cleanup_loop)

\* the longest the request to the score API is let to take here (the client's
\* timeout is 10 s)
MaxFetchSeconds == 2
FetchSeconds == {0, MaxFetchSeconds}

\* The bot with the time the score API takes to answer /mystatus; between two
\* updates a minute passes, or all of the session timeout but a second.
NextFetch ==
    \/ \E l \in Links, sc \in TokenScores : store_pending_token(l, sc)
    \/ \E u \in Users, l \in Links \cup {NoLink}, live \in LiveScores :
          handle_new_member(u, l, live)
    \/ \E u \in Users, live \in LiveScores, seconds \in FetchSeconds :
          cmd_mystatus_fetch(u, live, seconds)
    \/ _cleanup_expired
    \/ \E seconds \in {TickSeconds, DEFAULT_SESSION_TIMEOUT - 1} : BotTick(seconds)

SpecFetch == Init /\ [][NextFetch]_vars

\* the number of calls after which the repetition is cut off
MaxCalls == 1200

\* A user at the initial score whose every login is one interaction: each
\* call of calculate_new_score(score, 1) is made with the score the call
\* before it returned, which went through round(new_score, 2) and the users
\* table.
InitSingles ==
    /\ InitServer /\ InitBot /\ InitToken
    /\ pure_call = [fn |-> "calculate_new_score", current_score |-> INITIAL_SCORE * 100,
                    interactions |-> 1, calls |-> 0]
    /\ pure_ret = <<>>

call_repeated ==
    LET new_score == calculate_new_score(pure_call.current_score, pure_call.interactions)
    IN
    /\ pure_call.fn = "calculate_new_score"
    /\ pure_call.calls < MaxCalls
    /\ pure_ret' = <<new_score>>
    /\ pure_call' = [pure_call EXCEPT !.current_score = new_score, !.calls = @ + 1]
    /\ UNCHANGED <<serverVars, botVars, tokenVars>>

SpecSingles == InitSingles /\ [][call_repeated]_vars

SpecToken == Init /\ [][NextToken]_vars

InitPure ==
    InitServer /\ InitBot /\ InitToken /\ pure_call \in PureCalls /\ pure_ret = <<>>

SpecPure == InitPure /\ [][NextPure]_vars

\* The server a minute after a2 has followed a1 through /api/verify: the
\* followers row is there, not yet confirmed, and a1 has one pending bonus;
\* the totals are on the ledger.
InitServerFollowed ==
    /\ now = TickSeconds
    /\ events = 0
    /\ registered = Addresses
    /\ score = [a \in Addresses |-> INITIAL_SCORE * 100]
    /\ last_login = [a \in Addresses |-> 0]
    /\ pending_bonus = [a \in Addresses |-> IF a = "a1" THEN 1 ELSE 0]
    /\ followers = {<<"a1", "a2">>}
    /\ confirmed = {}
    /\ blockchain_score =
           [a \in Addresses |-> calculate_resonance_score(registered, score, followers, a)]
    /\ ledger = blockchain_score
    /\ scanned = FALSE
    /\ sync_queue = <<>>
    /\ jobs = <<>>
    /\ pc = [t \in Tasks |-> "idle"]
    /\ frame = [t \in Tasks |-> NoFrame]
    /\ _nonce_lock = "free"
    /\ _last_nonce = NoNonce
    /\ _last_nonce_time = 0
    /\ tx_count = 0
    /\ txs = <<>>
    /\ obs = [a \in Addresses |-> <<>>]

InitFollowed ==
    InitServerFollowed /\ InitBot /\ InitToken /\ pure_call = NoCall /\ pure_ret = <<>>

SpecFollowed == InitFollowed /\ [][Next]_vars

\* The server restarted a minute after a2 has followed a1, with a1's total never
\* written to the ledger (users.blockchain_score is 0, as for a new row): the
\* startup scan will enqueue it.
InitServerUnsynced ==
    /\ now = TickSeconds
    /\ events = 0
    /\ registered = Addresses
    /\ score = [a \in Addresses |-> INITIAL_SCORE * 100]
    /\ last_login = [a \in Addresses |-> 0]
    /\ pending_bonus = [a \in Addresses |-> IF a = "a1" THEN 1 ELSE 0]
    /\ followers = {<<"a1", "a2">>}
    /\ confirmed = {}
    /\ blockchain_score =
           [a \in Addresses |->
               IF a = "a1" THEN 0
               ELSE calculate_resonance_score(registered, score, followers, a)]
    /\ ledger = blockchain_score
    /\ scanned = FALSE
    /\ sync_queue = <<>>
    /\ jobs = <<>>
    /\ pc = [t \in Tasks |-> "idle"]
    /\ frame = [t \in Tasks |-> NoFrame]
    /\ _nonce_lock = "free"
    /\ _last_nonce = NoNonce
    /\ _last_nonce_time = 0
    /\ tx_count = 0
    /\ txs = <<>>
    /\ obs = [a \in Addresses |-> <<>>]

InitUnsynced ==
    InitServerUnsynced /\ InitBot /\ InitToken /\ pure_call = NoCall /\ pure_ret = <<>>

\* The logins (without a referrer) and follower confirmations served while
\* the consumer of the queue works on the item of the startup scan, up to the
\* point where an item would be tried for more than MaxAttempts times.
NextUnsynced ==
    \/ initial_sync_scan
    \/ \E a \in Addresses : verify(a, NoOwner)
    \/ \E a, f \in Addresses : confirm_follower(a, f)
    \/ process_get /\ jobs[Head(sync_queue).job].attempts < MaxAttempts
    \/ update_blockchain_score("worker")
    \/ process_result
    \/ process_requeue
    \/ update_blockchain_score("handler")
    \/ sync_after_return
    \/ Mine

SpecUnsynced == InitUnsynced /\ [][NextUnsynced]_vars

\* an answer of Blockscout with more interactions than MAX_SCORE - INITIAL_SCORE
ManyInteractions == 51

\* what get_user_interaction_count may return: len(items) counts of the
\* Registry events that name the owner
InteractionCounts == {0, MaxInteractions, ManyInteractions}

\* Sign-ups, logins and dashboard logins, with the direct syncs they start.
NextDashboard ==
    \/ initial_sync_scan
    \/ \E a \in Addresses : verify(a, NoOwner)
    \/ \E a \in Addresses : verify_dashboard_signature(a)
    \/ \E n \in InteractionCounts : dashboard_existing(n)
    \/ \E a \in Addresses : gdpr_delete_data(a)
    \/ Tick
    \/ update_blockchain_score("handler")
    \/ sync_after_return
    \/ force_return
    \/ Mine

SpecDashboard == Init /\ [][NextDashboard]_vars

\* The steps of a request handler that is under way.
HandlerSteps ==
    \/ update_blockchain_score("handler")
    \/ set_profile_visibility("handler")
    \/ sync_after_return
    \/ force_return

\* The event loop keeps running every coroutine that is ready: the consumer
\* task created by start_sync_queue_processor and the handlers under way.
SpecLive ==
    Init /\ [][Next]_vars /\ WF_vars(process_sync_queue) /\ WF_vars(HandlerSteps)

\* ================================================= the claims
LedgerTxs == {i \in 1..Len(txs) : txs[i].op # "vis"}

\* C1, as stated: the ledger client never receives a second submission for an
\* address before the first submission for it has been confirmed (mined).
C1_NoSubmissionBeforeConfirmation ==
    \A j \in LedgerTxs : ~txs[j].unconfirmed

\* C1, amended: the ledger client never receives a second submission for an
\* address before the wait for the first one's receipt has ended, by a receipt
\* or by the timeout; after a timeout the first may still be unconfirmed.
C1_NoSubmissionBeforeWaitEnds ==
    /\ \A j \in LedgerTxs : ~txs[j].overlaps
    /\ \A i, j \in LedgerTxs : i < j /\ txs[i].address = txs[j].address =>
                                  txs[i].wait # "waiting"

\* two jobs for one address, the second submitted after the wait for the
\* first has timed out
C1_Witness ==
    \E i, j \in LedgerTxs :
        /\ i < j
        /\ txs[i].op = "queue" /\ txs[j].op = "queue"
        /\ txs[i].address = txs[j].address
        /\ txs[i].job # txs[j].job
        /\ txs[i].wait = "timeout"
        /\ txs[j].unconfirmed

\* C2, as stated: no two submissions have both chosen their nonce and not yet
\* sent, and no sending operation submits without holding _nonce_lock.
C2_SerializedByLock ==
    /\ Cardinality({t \in Tasks : pc[t] \in {"ubs_send", "vis_send"}}) <= 1
    /\ \A t \in Tasks : pc[t] \in {"ubs_send", "vis_send"} => _nonce_lock = t
    /\ \A i \in 1..Len(txs) : txs[i].locked

QueuedItems(k) == {i \in 1..Len(sync_queue) : sync_queue[i].job = k}

\* C3, as stated: no job is submitted to the ledger more than MAX_RETRIES (3)
\* times.
C3_AtMostThreeSubmissions ==
    \A k \in 1..Len(jobs) : jobs[k].attempts <= MAX_RETRIES

\* C3, amended: a job whose submission fails goes back into the queue with its
\* retry counter one higher, RETRY_DELAY_SECONDS after the failure or later;
\* it is abandoned after MAX_RETRIES + 1 failed submissions, is never in the
\* queue again, and no job is submitted more than MAX_RETRIES + 1 times.
C3_RetriesThenAbandoned ==
    \A k \in 1..Len(jobs) :
        /\ jobs[k].attempts <= MAX_RETRIES + 1
        /\ jobs[k].state = "abandoned" => jobs[k].attempts = MAX_RETRIES + 1
        /\ jobs[k].state \in {"abandoned", "committed"} =>
               QueuedItems(k) = {} /\ frame["worker"].job # k
        /\ jobs[k].state = "enqueued" =>
               /\ Cardinality(QueuedItems(k)) = 1
               /\ \A i \in QueuedItems(k) : sync_queue[i].retries = jobs[k].attempts
               /\ jobs[k].attempts > 0 =>
                      jobs[k].requeued_at >= jobs[k].failed_at + RETRY_DELAY_SECONDS
        /\ jobs[k].state = "retrying" =>
               /\ frame["worker"].retries = jobs[k].attempts
               /\ frame["worker"].wake_at = jobs[k].failed_at + RETRY_DELAY_SECONDS

\* a job that failed MAX_RETRIES + 1 times and was given up
C3_Witness ==
    \E k \in 1..Len(jobs) :
        jobs[k].state = "abandoned" /\ jobs[k].attempts = MAX_RETRIES + 1

RefreshCalls(u) == {i \in 1..Len(calls[u]) : calls[u][i].cause = "refresh"}

\* C4, as stated: every flip of write eligibility seen by a message, /mystatus
\* or a poll vote causes exactly one mute/unmute call, and no call is made
\* while eligibility is unchanged.
C4_OneCallPerFlip ==
    \A u \in Users : flips[u] = Cardinality(RefreshCalls(u))

\* C5, as stated: write permission is granted on join, and a vote is accepted,
\* only on a live score; a stored or cached score never stands in for it.
C5_FailClosed ==
    /\ \A i \in 1..Len(joins) : joins[i].granted => joins[i].live # NoScore
    /\ \A i \in 1..Len(ballots) : ballots[i].accepted => ballots[i].live # NoScore

\* C6, as stated: verify_token returns a payload only for the token as it was
\* issued and not after its expiry: with one character of the payload part or
\* of the signature changed, or after exp, it returns none.
C6_TamperedOrExpiredRejected ==
    verdict.done /\ verdict.payload.valid =>
        verdict.changed = "no" /\ verdict.at <= verdict.exp

\* C7: for each stored token at most one claim returns its data; a claim for
\* an unknown, already claimed or expired link returns none and creates no
\* session, and every session comes from a successful claim.
C7_ClaimedAtMostOnce ==
    /\ \A i, j \in 1..Len(joins) :
          (i < j /\ joins[i].claimed /\ joins[j].claimed /\ joins[i].link = joins[j].link)
              => joins[i].gen # joins[j].gen
    /\ \A i \in 1..Len(joins) :
          /\ joins[i].claimed => joins[i].present /\ ~joins[i].expired
          /\ (joins[i].link = NoLink \/ ~joins[i].present \/ joins[i].expired)
                 => ~joins[i].claimed
          /\ ~joins[i].claimed => ~joins[i].session
    /\ \A u \in Users : sessions[u].active =>
          \E i \in 1..Len(joins) : joins[i].user = u /\ joins[i].claimed

\* one link used by two joins: the first gets the token, the second nothing;
\* and a join whose token had expired
C7_Witness ==
    \E i, j \in 1..Len(joins) :
        /\ i < j
        /\ joins[i].link = joins[j].link /\ joins[i].link # NoLink
        /\ joins[i].claimed /\ joins[i].session
        /\ ~joins[j].claimed /\ ~joins[j].session

Downward(d) == d.sync /\ d.value < d.ledger /\ d.value < d.cache

\* C8, as stated: a value lower than the last ledger value of the address is
\* submitted only when the observation before it saw a lower total too.
C8_NoDownwardSyncAtOnce ==
    \A a \in Addresses : \A k \in 1..Len(obs[a]) :
        Downward(obs[a][k]) =>
            k > 1 /\ obs[a][k - 1].total < obs[a][k].ledger

\* C9, as stated: a sync decision is true only when the total differs from the
\* last ledger value of the address and the total is even.
C9_SyncOnlyChangedAndEven ==
    \A a \in Addresses : \A k \in 1..Len(obs[a]) :
        obs[a][k].sync =>
            /\ obs[a][k].total # obs[a][k].ledger \/ obs[a][k].total # obs[a][k].cache
            /\ obs[a][k].total % 2 = 0

\* C10, as stated: for an unchanged total the sync decision is never true
\* twice in a row.
C10_NotTwiceForSameTotal ==
    \A a \in Addresses : \A k \in 1..Len(obs[a]) :
        (k > 1 /\ obs[a][k - 1].total = obs[a][k].total)
            => ~(obs[a][k - 1].sync /\ obs[a][k].sync)

\* C11, as stated: the nonces of the transactions the backend signer sends are
\* strictly increasing in the order they are sent; no two are equal.
C11_NoncesStrictlyIncrease ==
    \A i, j \in 1..Len(txs) : i < j => txs[i].nonce < txs[j].nonce

JobIds == 1..MaxEvents

Finished(k) == k <= Len(jobs) /\ jobs[k].state \in {"committed", "abandoned"}

\* the one step a job may take from each state
JobStep(k) ==
    \/ jobs'[k] = jobs[k]
    \/ /\ jobs[k].state = "enqueued" /\ jobs'[k].state = "inflight"
       /\ jobs'[k].attempts = jobs[k].attempts + 1
       /\ Cardinality({i \in 1..Len(sync_queue) : sync_queue[i].job = k}) = 1
       /\ \A i \in 1..Len(sync_queue') : sync_queue'[i].job # k
       /\ frame'["worker"].job = k
    \/ /\ jobs[k].state = "inflight"
       /\ jobs'[k].state \in {"committed", "retrying", "abandoned"}
       /\ jobs'[k].attempts = jobs[k].attempts
    \/ /\ jobs[k].state = "retrying" /\ jobs'[k].state = "enqueued"
       /\ jobs'[k].attempts = jobs[k].attempts
       /\ Cardinality({i \in 1..Len(sync_queue') : sync_queue'[i].job = k}) = 1

\* C12: every job put into the queue goes Enqueued -> InFlight -> Committed,
\* Abandoned, or Retrying and back into the queue; it is taken by the worker
\* once per attempt, no job is dropped or changed in another way, and unless
\* the consumer is stopped every job in the end is Committed or Abandoned.
C12_JobLifecycle ==
    /\ [][/\ Len(jobs') >= Len(jobs)
          /\ \A k \in 1..Len(jobs) : JobStep(k)
          /\ \A k \in (Len(jobs) + 1)..Len(jobs') : jobs'[k].state = "enqueued"]_vars
    /\ \A k \in JobIds : (k <= Len(jobs)) ~> (Finished(k) \/ ~_is_running)

\* a job that failed, waited, was taken again and was committed then
C12_Witness ==
    \E k \in 1..Len(jobs) : jobs[k].state = "committed" /\ jobs[k].attempts = 2

\* C13, as stated: once the consumer has been stopped, every job is finished
\* (Committed or Abandoned) or still in the queue.
C13_NoJobLostOnShutdown ==
    ~_is_running =>
        \A k \in 1..Len(jobs) : Finished(k) \/ QueuedItems(k) # {}

Commits(k) == jobs[k].state # "committed" /\ jobs'[k].state = "committed"

Fails(k) == jobs[k].state = "inflight" /\ jobs'[k].state \in {"retrying", "abandoned"}

NewScoreReturned == pure_call.fn = "calculate_new_score" /\ pure_ret # <<>>

\* C15: for every valid score s and interaction count n,
\* calculate_new_score(s, n) is at most MAX_SCORE and at most
\* calculate_new_score(s, n + 1).
C15_MonotonicGrowth ==
    NewScoreReturned =>
        /\ pure_ret[1] <= MAX_SCORE * 100
        /\ pure_ret[1] <= calculate_new_score(pure_call.current_score,
                                              pure_call.interactions + 1)

\* two interactions at 99.99 have returned 100.00: the cap has acted
C15_Witness ==
    /\ NewScoreReturned
    /\ pure_call.current_score = 9999
    /\ pure_call.interactions = 2
    /\ pure_ret[1] = MAX_SCORE * 100

\* the band of a score in hundredths and the increment the spec gives it
BandIncrement(s) ==
    IF s < 6000 THEN 100
    ELSE IF s < 7000 THEN 50
    ELSE IF s < 8000 THEN 20
    ELSE IF s < 9000 THEN 10
    ELSE 1

\* C16: one interaction adds the increment of the band that contains the
\* current score (capped at MAX_SCORE), a score on a boundary 60.00, 70.00,
\* 80.00 or 90.00 takes the higher band's smaller rate, and 58 gives 59.00,
\* 61.8 gives 62.30, 60.00 gives 60.50.
C16_TierCorrectness ==
    (NewScoreReturned /\ pure_call.interactions = 1) =>
        LET s == pure_call.current_score
        IN /\ pure_ret[1] = IF s + BandIncrement(s) > MAX_SCORE * 100
                            THEN MAX_SCORE * 100 ELSE s + BandIncrement(s)
           /\ s = 5800 => pure_ret[1] = 5900
           /\ s = 6180 => pure_ret[1] = 6230
           /\ s = 6000 => pure_ret[1] = 6050
           /\ s = 7000 => pure_ret[1] = 7020
           /\ s = 8000 => pure_ret[1] = 8010
           /\ s = 9000 => pure_ret[1] = 9001

\* one interaction at the boundary 60.00 has returned 60.50
C16_Witness ==
    /\ NewScoreReturned
    /\ pure_call.interactions = 1
    /\ pure_call.current_score = 6000
    /\ pure_ret[1] = 6050

\* n successive calls with one interaction each, from s
RECURSIVE Successive(_, _)
Successive(s, n) ==
    IF n = 0 THEN s ELSE calculate_new_score(Successive(s, n - 1), 1)

\* C17, as stated: for all s and n the result of calculate_new_score(s, n)
\* equals n successive single-interaction applications.
C17_EqualsSuccessive ==
    NewScoreReturned =>
        pure_ret[1] = Successive(pure_call.current_score, pure_call.interactions)

ResonanceReturned == pure_call.fn = "calculate_resonance_score" /\ pure_ret # <<>>

\* C18, as stated: the total for the ledger is floor(own + mean of the
\* followers' current scores), the mean being 0 without followers; own 50
\* with followers 40 and 60 gives 100.
C18_TotalIsFloorOfOwnPlusMean ==
    ResonanceReturned =>
        LET k == Len(pure_call.rows)
            sum == SumSeq(pure_call.rows, k)
        IN pure_ret[1] = IF k = 0 THEN pure_call.own_score \div 100
                         ELSE (k * pure_call.own_score + sum) \div (100 * k)

CapabilitiesReturned == pure_call.fn = "generate_capabilities" /\ pure_ret # <<>>

Contains(caps, cap) == \E i \in 1..Len(caps) : caps[i] = cap

\* C19: generate_capabilities(score, config) contains write if and only if
\* score >= config.min_score, and contains poll_<level> exactly for the
\* configured levels that the score meets or exceeds; with min score 50,
\* score 48 has no write and score 50 has it.
C19_CapabilitiesOfScore ==
    CapabilitiesReturned =>
        LET caps == pure_ret[1]
            config == pure_call.config
        IN /\ Contains(caps, <<"write">>) <=> pure_call.score >= config.min_score
           /\ \A level \in 0..MAX_SCORE :
                 Contains(caps, <<"poll", level>>)
                 <=> /\ \E i \in 1..Len(config.poll_score_levels) :
                           config.poll_score_levels[i] = level
                     /\ pure_call.score >= level
           /\ (config.min_score = 50 /\ pure_call.score = 48)
                 => ~Contains(caps, <<"write">>)
           /\ (config.min_score = 50 /\ pure_call.score = 50)
                 => Contains(caps, <<"write">>)

\* score 50 with min score 50 and the default levels: write and poll_50 only
C19_Witness ==
    /\ CapabilitiesReturned
    /\ pure_call.score = 50
    /\ pure_call.config.min_score = 50
    /\ pure_ret[1] = << <<"write">>, <<"poll", 50>> >>

\* C20, as stated: over logins, dashboard logins and follow confirmations the
\* stored score of a subject never drops, that is, no step leaves a user
\* that keeps its users row with a lower score than it had.
C20_ScoreNeverDrops ==
    [][\A a \in Addresses :
          (a \in registered /\ a \in registered') => score'[a] >= score[a]]_vars

\* C21, as stated: for one session at most one live-score fetch is started by
\* the message handler within any refresh interval of 60 s, whether or not
\* the fetches succeed: two fetches of a session are at least 60 s apart.
C21_OneFetchPerInterval ==
    \A u \in Users :
        fetched[u].n >= 2 => fetched[u].at - fetched[u].before >= SCORE_REFRESH_SECONDS

\* a handler of the subject that reaches get_wallet_address on a session
\* whose wallet does not decrypt
DecryptFails(u) ==
    LET session == get_session(u)
    IN /\ session.active
       /\ ~get_wallet_address(session).ok
       /\ \/ /\ needs_score_refresh(extend_session(session, DEFAULT_SESSION_TIMEOUT))
             /\ \E live \in LiveScores : handle_message(u, live)
          \/ \E live \in LiveScores : cmd_mystatus(u, live)
          \/ /\ ~closed
             /\ \E live \in LiveScores, vote_num \in 1..(NumOptions + 1) :
                   handle_poll_vote(u, live, vote_num)

\* C22, as stated: when decrypting a session's wallet fails, the session is
\* invalidated at once: after the handler has returned the subject has no
\* session (so that the operation cannot be tried again on it).
C22_InvalidatedOnDecryptFailure ==
    [][\A u \in Users : DecryptFails(u) => ~sessions'[u].active]_vars

\* a handler of the subject that looks its session up with get_session
Lookup(u) ==
    \/ \E live \in LiveScores : handle_message(u, live)
    \/ \E live \in LiveScores : cmd_mystatus(u, live)
    \/ \E live \in LiveScores, vote_num \in 1..(NumOptions + 1) :
          handle_poll_vote(u, live, vote_num)

\* C23, as stated: a session leaves the session map only by the background
\* sweep or by the leave of its subject; no lookup, message, status command or
\* vote removes a session.
C23_OnlySweepOrLeave ==
    [][\A u \in Users :
          sessions[u].active /\ ~sessions'[u].active
              => _cleanup_expired \/ handle_left_member(u)]_vars

\* C23, amended: a session that has not expired leaves the session map only
\* by the leave of its subject; an expired session is deleted by the sweep or
\* by the next handler of its subject that looks it up.
C23_RemovedByLeaveOrExpiry ==
    [][\A u \in Users :
          sessions[u].active /\ ~sessions'[u].active
              => \/ handle_left_member(u)
                 \/ /\ now > sessions[u].expires
                    /\ _cleanup_expired \/ Lookup(u)]_vars

\* an expired session was deleted by a handler that looked it up
C23_Witness ==
    \E u \in Users : removed[u] = "lookup" /\ ~sessions[u].active

ExpiredSession(u) == sessions[u].active /\ now > sessions[u].expires
ExpiredToken(l) == pending_tokens[l].present /\ now > pending_tokens[l].exp

\* C24: while the cleanup task runs, a session or pending token whose expiry
\* has passed is removed in the end and is never in its map more than one
\* sweep interval after its expiry, and an iteration of the sweep removes no
\* session and no pending token whose expiry has not passed.
C24_SweepRemovesExpiredOnly ==
    /\ \A u \in Users : ExpiredSession(u) ~> ~sessions[u].active
    /\ \A l \in Links : ExpiredToken(l) ~> ~pending_tokens[l].present
    /\ [](\A u \in Users : sessions[u].active => now - sessions[u].expires < CLEANUP_SECONDS)
    /\ [](\A l \in Links :
            pending_tokens[l].present => now - pending_tokens[l].exp < CLEANUP_SECONDS)
    /\ [][_cleanup_loop =>
            /\ \A u \in Users : sessions'[u] # sessions[u] => now' > sessions[u].expires
            /\ \A l \in Links :
                  pending_tokens'[l] # pending_tokens[l] => now' > pending_tokens[l].exp]_vars

\* the sweep has removed an expired session and an expired pending token
\* while a session that has not expired is still there
C24_Witness ==
    /\ \E u \in Users : removed[u] = "sweep" /\ ~sessions[u].active
    /\ \E l \in Links : removed[l] = "sweep"

C26_VoteOnLiveScoreOnly ==
    \A i \in 1..Len(ballots) :
        ballots[i].accepted =>
            /\ ballots[i].session
            /\ ballots[i].live # NoScore
            /\ ballots[i].live >= PollMinScore

\* the ballots of the subject that were accepted
Accepted(u) == {i \in 1..Len(ballots) : ballots[i].user = u /\ ballots[i].accepted}
Voters == {u \in Users : votes[u] # NoVote}

\* C27: last vote wins: the votes map holds for each subject the option of
\* the subject's most recent accepted vote and nothing for a subject without
\* one, and the counts per option sum to the number of voters.
C27_LastVoteWins ==
    /\ \A u \in Users :
          IF Accepted(u) = {} THEN votes[u] = NoVote
          ELSE \E i \in Accepted(u) :
                  /\ \A j \in Accepted(u) : j <= i
                  /\ votes[u] = ballots[i].option
    /\ SumSeq(get_results(votes), NumOptions) = Cardinality(Voters)
    /\ \A o \in 1..NumOptions :
          get_results(votes)[o] = Cardinality({u \in Users : votes[u] = o - 1})

\* a subject has voted twice, for two options, and the second one is stored
C27_Witness ==
    \E i, j \in 1..Len(ballots) :
        /\ i < j
        /\ ballots[i].user = ballots[j].user
        /\ ballots[i].accepted /\ ballots[j].accepted
        /\ ballots[i].option # ballots[j].option
        /\ votes[ballots[j].user] = ballots[j].option

\* C28: once the poll was closed (results holds the tally cmd_closepoll got),
\* the poll is closed for good, every later vote is rejected, the votes map
\* and the tally never change again, and the tally is the count per option of
\* the votes recorded before the close.
C28_CloseFreezes ==
    /\ [](results # <<>> => closed /\ results = get_results(votes))
    /\ [][results # <<>> =>
            /\ votes' = votes
            /\ results' = results
            /\ closed'
            /\ Len(ballots') > Len(ballots) => ~ballots'[Len(ballots')].accepted]_vars

\* the poll was closed with a vote recorded, and a vote after the close by a
\* user with a session was rejected
C28_Witness ==
    /\ closed
    /\ results # <<>>
    /\ \E o \in 1..NumOptions : results[o] > 0
    /\ \E i \in 1..Len(ballots) :
          /\ ballots[i].closed
          /\ ~ballots[i].accepted
          /\ sessions[ballots[i].user].active
          /\ ballots[i].option \in 0..(NumOptions - 1)
          /\ votes[ballots[i].user] # ballots[i].option

\* C29, as stated: for every wallet string w, decrypt(encrypt(w)) is w.
C29_RoundTrip ==
    (pure_call.fn = "decrypt" /\ pure_ret # <<>>) =>
        pure_ret[1].ok /\ pure_ret[1].wallet = pure_call.wallet_address

\* C29, amended: for every wallet string w, decrypt(encrypt(w)) is w in lower
\* case, whatever the nonce; it is w when w has no upper-case letter.
C29_RoundTripLower ==
    (pure_call.fn = "decrypt" /\ pure_ret # <<>>) =>
        /\ pure_ret[1].ok
        /\ Len(pure_ret[1].wallet) = Len(pure_call.wallet_address)
        /\ \A i \in 1..Len(pure_call.wallet_address) :
              pure_ret[1].wallet[i] =
                  IF pure_call.wallet_address[i] \in 65..90
                  THEN pure_call.wallet_address[i] + 32
                  ELSE pure_call.wallet_address[i]

\* the round trip of "Aé0" has returned "aé0"
C29_Witness ==
    /\ pure_call.fn = "decrypt"
    /\ pure_call.wallet_address = <<65, 233, 48>>
    /\ pure_ret = <<[ok |-> TRUE, wallet |-> <<97, 233, 48>>]>>

\* the last join of the subject is the one that created its session
JoinedWithSession(u) ==
    \E i \in 1..Len(joins) :
        /\ joins[i].user = u /\ joins[i].session
        /\ \A j \in (i + 1)..Len(joins) : joins[j].user # u

\* C30, as stated: after every handler, for a subject with a session, the
\* permission applied last on the chat (unmuted or muted) agrees with whether
\* the last known score of the session is at least the group's min_score.
C30_PermissionAgreesWithScore ==
    \A u \in Users :
        (get_session(u).active /\ JoinedWithSession(u)) =>
            /\ calls[u] # <<>>
            /\ (calls[u][Len(calls[u])].kind = "unmute")
                   <=> can_write(sessions[u], min_score)

\* the queue has drained: no item is queued, in flight or waiting for a retry
Drained == sync_queue = <<>> /\ pc["worker"] \in {"idle", "stopped"}

\* the last transaction that wrote the ledger value of the address
LastWrite(address) ==
    {i \in Earlier(address) :
        /\ txs[i].status = "success"
        /\ \A j \in Earlier(address) : txs[j].status = "success" => txs[j].nonce <= txs[i].nonce}

\* the job's transaction was mined with success status
Written(k) ==
    \E i \in 1..Len(txs) : txs[i].op = "queue" /\ txs[i].job = k /\ txs[i].status = "success"

\* C31, as stated: when jobs for one address were enqueued with target a and
\* later with target b, and the queue has drained with both committed (the
\* transaction of the later one mined with success), the ledger value and
\* users.blockchain_score of the address are b, so far as a job of the queue
\* and not a handler wrote them last.
C31_NewerTargetWins ==
    \A k1, k2 \in 1..Len(jobs) :
        ( /\ k1 < k2
          /\ jobs[k1].address = jobs[k2].address
          /\ \A k \in 1..Len(jobs) : jobs[k].address = jobs[k2].address => k <= k2
          /\ jobs[k1].state = "committed" /\ jobs[k2].state = "committed"
          /\ Written(k2)
          /\ Drained
          /\ jobs[k2].address \in registered
          /\ \A i \in Earlier(jobs[k2].address) : txs[i].op # "force"
          /\ \E i \in LastWrite(jobs[k2].address) : txs[i].op = "queue" )
        => /\ ledger[jobs[k2].address] = jobs[k2].score
           /\ blockchain_score[jobs[k2].address] = jobs[k2].score


\* a ledger transaction writing value for address was confirmed with success status
ConfirmedWrite(address, value) ==
    \E i \in Earlier(address) : txs[i].score = value /\ txs[i].status = "success"

\* C32, as stated: the local last-synced value of an address is changed to a
\* value v only when a ledger transaction writing v for that address was
\* confirmed with success status; a transaction that was mined but reverted,
\* or whose receipt timed out, never changes it.
C32_SyncedOnlyOnSuccess ==
    [][\A a \in Addresses :
          (blockchain_score'[a] # blockchain_score[a] /\ blockchain_score'[a] # 0)
              => ConfirmedWrite(a, blockchain_score'[a])]_vars


\* the nonces of the transactions the signer has sent
SentNonces == {txs[i].nonce : i \in 1..Len(txs)}

\* C33, as stated: a submission that failed while it was built, signed or sent
\* leaves no gap in the signer's nonce sequence: every nonce below the one a
\* submission is about to use was used by a sent transaction.
C33_NoNonceGap ==
    \A t \in Tasks :
        pc[t] = "ubs_send" => \A n \in 0..(frame[t].nonce - 1) : n \in SentNonces


\* C34, as stated: after any sequence of sign-ups, logins and dashboard
\* logins, every stored own score lies between the initial score (50) and
\* MAX_SCORE (100) inclusive.
C34_OwnScoreInRange ==
    \A a \in registered :
        INITIAL_SCORE * 100 <= score[a] /\ score[a] <= MAX_SCORE * 100


\* expire_date of the invite link whose pending token is stored: the link is
\* created with expire_seconds = 300 just before its token is stored
LinkExpireDate(l) ==
    pending_tokens[l].exp - PENDING_TOKEN_SECONDS + INVITE_EXPIRE_SECONDS

\* C35, as stated: whenever a subject joins through a one-time invite link
\* that is still valid on the chat platform (within 300 s of its creation),
\* the pending token stored for that link is still claimable, so the join
\* creates a session instead of being treated as a join without a token.
C35_ValidLinkJoinCreatesSession ==
    [][\A l \in Links :
          ( /\ Len(joins') = Len(joins) + 1
            /\ joins'[Len(joins')].link = l
            /\ pending_tokens[l].present
            /\ now <= LinkExpireDate(l) )
              => joins'[Len(joins')].session]_vars


\* a step of POST /api/verify for an address that has a users row
VerifyOfExisting(a) ==
    /\ a \in registered
    /\ Len(obs'[a]) = Len(obs[a]) + 1
    /\ obs'[a][Len(obs'[a])].path = "sync_after"

ForceDecision(a) == obs'[a][Len(obs'[a])]
ForceSyncCall(a) ==
    /\ Len(obs'[a]) = Len(obs[a]) + 1
    /\ ForceDecision(a).path = "force"

\* the force transactions sent for address a
ForceTxs(a) == {t \in 1..Len(txs) : txs[t].op = "force" /\ txs[t].address = a}

\* the last sync decision taken for a was a force sync for the same total,
\* and the transaction it sent, the last force transaction of a, was
\* confirmed with success and is the last write of a's ledger value: no
\* other submission for a was confirmed since
ForceSynced(a, total) ==
    LET i == Len(obs[a])
    IN /\ i > 0
       /\ obs[a][i].path = "force"
       /\ obs[a][i].sync
       /\ obs[a][i].total = total
       /\ \E t \in ForceTxs(a) :
             /\ \A u \in ForceTxs(a) : u <= t
             /\ txs[t].score = obs[a][i].value
             /\ txs[t].status = "success"
             /\ t \in LastWrite(a)

C38_NoActionOnExpiredSession ==
    \A u \in Users :
        /\ get_session(u).active => now <= get_session(u).expires
        /\ sessions[u].active
              => /\ sessions[u].last_activity <= sessions[u].expires
                 /\ sessions[u].last_score_check <= sessions[u].expires


\* the score after the calls made so far has reached the bound (in points)
\* exactly when at least n calls were made
ReachedAfter(bound, n) ==
    pure_call.current_score >= bound * 100 <=> pure_call.calls >= n

\* C39: starting from score 50.00, repeated single interactions reach 60
\* after 10 interactions, 70 after 20 more, 80 after 50 more, 90 after 100
\* more and MAX_SCORE (100) after 1000 more, that is after 1180 interactions,
\* and none of them earlier.
C39_ReachesMaxAfter1180 ==
    /\ ReachedAfter(60, 10)
    /\ ReachedAfter(70, 10 + 20)
    /\ ReachedAfter(80, 10 + 20 + 50)
    /\ ReachedAfter(90, 10 + 20 + 50 + 100)
    /\ ReachedAfter(MAX_SCORE, 10 + 20 + 50 + 100 + 1000)
    /\ pure_call.current_score <= MAX_SCORE * 100

\* the 1180th call has returned MAX_SCORE
C39_Witness ==
    /\ pure_call.calls = 1180
    /\ pure_call.current_score = MAX_SCORE * 100
    /\ pure_ret = <<MAX_SCORE * 100>>

====
